---- MODULE Spec2Model ----
(***************************************************************************)
(* A model of the reliability package of FintechKit: the retry executor    *)
(* (WithRetry, RetryPolicy) and the circuit breaker (CircuitBreaker, a     *)
(* wrapper of github.com/sony/gobreaker).                                  *)
(*                                                                         *)
(* Two specifications share the module: SpecRetry runs one WithRetry call  *)
(* on an operation whose outcomes are chosen by the environment, with a    *)
(* context that may be cancelled at any moment; SpecBreaker runs           *)
(* concurrent callers of one CircuitBreaker against a clock.               *)
(*                                                                         *)
(* Errors are modelled as their Unwrap chains: a sequence of messages, the *)
(* outermost first. The nil error is the empty chain.                      *)
(***************************************************************************)
EXTENDS Integers, Sequences, FiniteSets, TLC

\* ------------------------------------------------------------------ bounds

\* The largest MaxRetries a policy of the model is given.
MaxRetriesBound == 3
\* rand.Float64() is drawn from {0/JitterSteps, ..., (JitterSteps-1)/JitterSteps}.
JitterSteps == 2

\* The callers that use the circuit breaker concurrently.
NumCallers == 2
\* The clock of the breaker runs from 1 to MaxTime.
MaxTime == 7
\* The number of Execute calls made on the breaker.
MaxExecs == 4
\* The largest FailureThreshold a config is given.
MaxThreshold == 2

\* ------------------------------------------------------------------ errors

Nil == << >>

ErrTimeout == <<"operation timeout">>
ErrNetworkError == <<"network error">>
\* fmt.Errorf("request failed: %w", ErrTimeout), as a provider would return it
ErrWrappedTimeout == <<"request failed">> \o ErrTimeout

ContextCanceled == <<"context canceled">>
ContextDeadlineExceeded == <<"context deadline exceeded">>

\* What fn() may return on one attempt.
Outcomes == {Nil, ErrTimeout, ErrNetworkError, ErrWrappedTimeout}

\* fmt.Errorf(msg + ": %w", err): an error whose Unwrap chain is err's
Wrap(msg, err) == <<msg>> \o err

\* errors.Is(err, target): some error of err's chain is the target
ErrorsIs(err, target) ==
    \E i \in 1..Len(err) : SubSeq(err, i, Len(err)) = target

\* ---------------------------------------------------------------- policies

DefaultRetryPolicy ==
    [MaxRetries |-> 3, InitialInterval |-> 1000, MaxInterval |-> 30000,
     Multiplier |-> 2, RandomizeJitter |-> TRUE, RetryableErrors |-> {}]

\* The policies a caller passes (durations in milliseconds): the one of
\* TestRetryBehavior with every MaxRetries of the bound, with and without an
\* explicit retryable set and jitter, and with a zero interval.
GivenPolicies ==
    [MaxRetries : -1..MaxRetriesBound, InitialInterval : {0, 10},
     MaxInterval : {100}, Multiplier : {2}, RandomizeJitter : BOOLEAN,
     RetryableErrors : {{}, {ErrTimeout}}]

\* WithRetry's policy argument, a *RetryPolicy: <<p>> points to p, << >> is nil
NilPolicy == << >>
PolicyArgs == {<<p>> : p \in GivenPolicies} \cup {NilPolicy}

\* lines 78-80: a nil policy is replaced by the default
EffectivePolicy(p) == IF p = NilPolicy THEN DefaultRetryPolicy ELSE p[1]

IsRetryable_AllErrors(p, err) == err # Nil

IsRetryable(p, err) ==
    IF err = Nil THEN FALSE
    ELSE IF Cardinality(p.RetryableErrors) = 0 THEN TRUE
    ELSE \E retryableErr \in p.RetryableErrors : ErrorsIs(err, retryableErr)

RECURSIVE Pow(_, _)
Pow(b, e) == IF e <= 0 THEN 1 ELSE b * Pow(b, e - 1)

\* CalculateBackoff with rand.Float64() = r / JitterSteps; the conversion to
\* time.Duration truncates the fraction of the jitter.
CalculateBackoff_JitterOfUncapped(p, n, r) ==
    IF n <= 0 THEN 0
    ELSE LET exp == p.InitialInterval * Pow(p.Multiplier, n - 1)
             capped == IF exp > p.MaxInterval THEN p.MaxInterval ELSE exp
         IN  IF p.RandomizeJitter
             THEN capped + ((r * 3 * exp) \div (10 * JitterSteps))
             ELSE capped

CalculateBackoff_FromAttempt(p, n, r) ==
    IF n <= 0 THEN 0
    ELSE LET exp == p.InitialInterval * Pow(p.Multiplier, n)
             capped == IF exp > p.MaxInterval THEN p.MaxInterval ELSE exp
         IN  IF p.RandomizeJitter
             THEN capped + ((r * 3 * capped) \div (10 * JitterSteps))
             ELSE capped

CalculateBackoff(p, n, r) ==
    IF n <= 0 THEN 0
    ELSE LET exp == p.InitialInterval * Pow(p.Multiplier, n - 1)
             capped == IF exp > p.MaxInterval THEN p.MaxInterval ELSE exp
         IN  IF p.RandomizeJitter
             THEN capped + ((r * 3 * capped) \div (10 * JitterSteps))
             ELSE capped

\* ------------------------------------------------------------------- state

VARIABLES
    policy,      \* WithRetry: the policy in force (after the nil check)
    pc,          \* WithRetry: "loop" | "select" | "returned"
    attempt,     \* WithRetry: the loop variable
    lastErr,     \* WithRetry: lastErr
    backoff,     \* WithRetry: the duration of the timer of the current wait
    woken,       \* the select: "none" (blocked) | "ctx" | "timer"
    ctxErr,      \* ctx.Err(): Nil until the context is cancelled
    result,      \* WithRetry: the returned error, once returned
    calls,       \* how many times fn was invoked
    waits,       \* how many times the select was entered
    lastOutcome, \* what the latest invocation of fn returned
    allRetryable,\* every invocation so far failed with a retryable error
    cancelCalls  \* -1, or calls at the moment a blocked select was cancelled

retryVars == <<policy, pc, attempt, lastErr, backoff, woken, ctxErr, result,
               calls, waits, lastOutcome, allRetryable, cancelCalls>>

VARIABLES
    config,      \* CircuitBreaker.config
    breaker,     \* CircuitBreaker.breaker: the gobreaker.CircuitBreaker
    now,         \* time.Now()
    running,     \* per caller: its Execute has invoked fn, which has not returned yet
    before,      \* per running caller: the generation beforeRequest returned to it
    probe,       \* per running caller: it was admitted while the breaker was half-open
    returned,    \* per caller: what its Execute returned ("nothing" until it does)
    execs,       \* how many Execute calls were made
    changedAt,   \* when the breaker last changed its state (or was constructed)
    probes,      \* wrapped-function invocations admitted since the breaker last became half-open
    failRun,     \* failed calls completed since the latest successful one
    failRunGen,  \* those of them counted in the breaker's current generation
    succRun      \* successful probes completed in a row in the current half-open period

breakerVars == <<config, breaker, now, running, before, probe, returned, execs,
                 changedAt, probes, failRun, failRunGen, succRun>>

VARIABLES
    fbGiven,     \* per caller: the fallback argument of its ExecuteWithFallback is not nil
    outcome      \* per caller: what its ExecuteWithFallback returned, and which function made it

fallbackVars == <<fbGiven, outcome>>

VARIABLES
    replaced,    \* per running caller: its Execute runs on a gobreaker that Reset has replaced
    sinceReset   \* "never" reset, or since the latest Reset: "clean" (no call admitted),
                 \* "admitted" (calls admitted, none completed), "completed"

resetVars == <<replaced, sinceReset>>

VARIABLES
    breakers,    \* CircuitBreakerManager.breakers: name -> breaker (0: no entry)
    mu,          \* CircuitBreakerManager.mu: the goroutines holding it for reading, the one holding it for writing (0: none)
    get,         \* per goroutine: its Get call (position, arguments, the local breaker, the result)
    constructed, \* the breakers NewCircuitBreaker has made, in order: the name and config of each
    handedOut,   \* per name: the breakers that Get calls have returned for it
    gets         \* how many Get calls were made

managerVars == <<breakers, mu, get, constructed, handedOut, gets>>

VARIABLES
    rlConfig,    \* RateLimiter.config
    limiter,     \* RateLimiter.limiter: the rate.Limiter (tokens, last, lastEvent)
    clock,       \* time.Now(), for the limiters
    waiting,     \* per caller: its Wait call (position, context, reservation, result)
    allowLog     \* the Allow calls made so far: when, and what each returned

limiterVars == <<rlConfig, limiter, clock, waiting, allowLog>>

VARIABLES
    backoffUntil, \* AdaptiveRateLimiter.backoffUntil
    owed,         \* the latest end of the backoffs asked for by OnRateLimitError since the last Reset
    cleared       \* Reset was called, and OnRateLimitError was not since

adaptiveVars == <<backoffUntil, owed, cleared>>

VARIABLES
    providerConfig, \* the ProviderConfig that the callers hand to Factory.Create (name apart)
    wrapped,        \* the providers Factory.Create has returned, in order: of each its name and
                    \* the policy, the RateLimiter and the CircuitBreaker that its wrappers hold
    inCall,         \* the Authenticate call going through a wrapped provider: which one, how far
                    \* it is, and what it has done so far
    chainNow        \* time.Now(), for the wrapped providers

chainVars == <<providerConfig, wrapped, inCall, chainNow>>

VARIABLES
    backoffPolicy, \* the RetryPolicy that CalculateBackoff is called on
    backoffCalls   \* the CalculateBackoff calls made: the attempt, rand.Float64() and the return of each

calculateVars == <<backoffPolicy, backoffCalls>>

VARIABLES
    policyArg,   \* the policy argument given to WithRetry and to WithRetryTyped
    trace,       \* what fn returned to WithRetry at each invocation, and rand.Float64() of the wait after it
    typed        \* WithRetryTyped: its locals, its position and what it returned

typedVars == <<policyArg, trace, typed>>

VARIABLES
    cbMutex,     \* the gobreaker's mutex: the caller whose operation holds it while OnStateChange runs (0: free)
    callback,    \* the OnStateChange invocation that is running: its arguments (<< >>: none)
    notified,    \* the OnStateChange invocations made so far, in order: the arguments of each
    blocked      \* the callers whose Execute, State or Counts waits for the gobreaker's mutex

notifyVars == <<cbMutex, callback, notified, blocked>>

VARIABLES
    cbMu,        \* CircuitBreaker.mu: the goroutine whose Reset holds it (0: free)
    resetPc,     \* per goroutine that calls Reset: "idle" | "locked" | "assigned"
    racy         \* per caller: its latest read of cb.breaker was made while a Reset held cb.mu

lockVars == <<cbMu, resetPc, racy>>

VARIABLES
    userLimiters, \* PerUserRateLimitMiddleware: the limiters map, key -> limiter (0: no entry)
    userCreated,  \* the limiters rate.NewLimiter has made for the map, in order: the key of each
    userTokens,   \* per limiter made: the tokens left in its bucket
    handling,     \* per goroutine: the request it handles (position, key, the local limiter, the response)
    served,       \* how many requests have arrived
    fatal         \* the runtime has stopped the process: concurrent map access

perUserVars == <<userLimiters, userCreated, userTokens, handling, served, fatal>>

VARIABLES
    tierLimiters, \* MultiTierRateLimiter.limiters: tier -> limiter (0: no entry)
    tierMade,     \* the limiters NewRateLimiter has made for AddTier, in order: the tier and the config of each
    tierTaken,    \* per limiter made: the tokens that Wait calls have taken from its bucket
    tierWait,     \* per goroutine: its Wait call (position, tier, the local limiter, the result)
    tierWaits     \* how many Wait calls were made

tierVars == <<tierLimiters, tierMade, tierTaken, tierWait, tierWaits>>

VARIABLES
    processed,    \* IdempotencyTracker.processed: the event IDs marked
    delivery,     \* per goroutine: its ProcessEvent call (position, event ID, the next handler, the result)
    completed,    \* per event ID and handler: how many times the handler has returned nil for the event
    deliveries,   \* how many ProcessEvent calls were made
    trackerFatal  \* the runtime has stopped the process: concurrent map access

webhookVars == <<processed, delivery, completed, deliveries, trackerFatal>>

\* auth.Manager: the credentials in the store, the rotation handlers
\* registered, the RotateAPIKey call in progress or returned, and how many
\* calls of SetCredentials and RotateAPIKey were made
VARIABLES credStore, rotationHandlers, rotation, credSets, rotations

rotateVars == <<credStore, rotationHandlers, rotation, credSets, rotations>>

\* webhook.AsyncRouter: the number of workers, the queue channel and whether
\* it is closed, the Route calls, the workers, and where Stop is
VARIABLES maxWorkers, queue, queueClosed, routeCall, worker, stopPc

asyncVars == <<maxWorkers, queue, queueClosed, routeCall, worker, stopPc>>

vars == <<retryVars, breakerVars, fallbackVars, resetVars, managerVars, limiterVars,
          adaptiveVars, chainVars,
          calculateVars,
          typedVars,
          notifyVars,
          lockVars,
          perUserVars,
          tierVars,
          webhookVars,
          rotateVars,
          asyncVars>>

\* SpecRetry constructs no circuit breaker.
NoBreaker ==
    /\ config = << >>
    /\ breaker = << >>
    /\ now = 0
    /\ running = << >>
    /\ before = << >>
    /\ probe = << >>
    /\ returned = << >>
    /\ execs = 0
    /\ changedAt = 0
    /\ probes = 0
    /\ failRun = 0
    /\ failRunGen = 0
    /\ succRun = 0

\* SpecBreaker makes no WithRetry call.
NoRetry ==
    /\ policy = << >>
    /\ pc = "returned"
    /\ attempt = 0
    /\ lastErr = << >>
    /\ backoff = 0
    /\ woken = "none"
    /\ ctxErr = << >>
    /\ result = << >>
    /\ calls = 0
    /\ waits = 0
    /\ lastOutcome = << >>
    /\ allRetryable = TRUE
    /\ cancelCalls = -1

\* No caller uses ExecuteWithFallback.
NoFallback ==
    /\ fbGiven = << >>
    /\ outcome = << >>

\* No caller uses Reset.
NoReset ==
    /\ replaced = << >>
    /\ sinceReset = "never"

\* No CircuitBreakerManager is made.
NoManager ==
    /\ breakers = << >>
    /\ mu = << >>
    /\ get = << >>
    /\ constructed = << >>
    /\ handedOut = << >>
    /\ gets = 0

\* No RateLimiter is made.
NoLimiter ==
    /\ rlConfig = << >>
    /\ limiter = << >>
    /\ clock = 0
    /\ waiting = << >>
    /\ allowLog = << >>

\* No AdaptiveRateLimiter is made.
NoAdaptive ==
    /\ backoffUntil = 0
    /\ owed = 0
    /\ cleared = FALSE

\* No Factory is made.
NoFactory ==
    /\ providerConfig = << >>
    /\ wrapped = << >>
    /\ inCall = << >>
    /\ chainNow = 0

\* CalculateBackoff is not called on its own.
NoCalculate ==
    /\ backoffPolicy = << >>
    /\ backoffCalls = << >>

\* WithRetryTyped is not in use.
NoTyped ==
    /\ policyArg = << >>
    /\ trace = << >>
    /\ typed = << >>

\* No OnStateChange callback is configured.
NoNotify ==
    /\ cbMutex = 0
    /\ callback = << >>
    /\ notified = << >>
    /\ blocked = {}

\* CircuitBreaker.mu is not in use.
NoLock ==
    /\ cbMu = 0
    /\ resetPc = << >>
    /\ racy = << >>

\* The per-user middleware is not in use.
NoPerUser ==
    /\ userLimiters = << >>
    /\ userCreated = << >>
    /\ userTokens = << >>
    /\ handling = << >>
    /\ served = 0
    /\ fatal = FALSE

\* No MultiTierRateLimiter is in use.
NoTiers ==
    /\ tierLimiters = << >>
    /\ tierMade = << >>
    /\ tierTaken = << >>
    /\ tierWait = << >>
    /\ tierWaits = 0

\* No IdempotentReceiver is in use.
NoWebhook ==
    /\ processed = {}
    /\ delivery = << >>
    /\ completed = << >>
    /\ deliveries = 0
    /\ trackerFatal = FALSE

\* No auth.Manager is in use.
NoRotate ==
    /\ credStore = << >>
    /\ rotationHandlers = << >>
    /\ rotation = << >>
    /\ credSets = 0
    /\ rotations = 0

\* No AsyncRouter is in use.
NoAsync ==
    /\ maxWorkers = 0
    /\ queue = << >>
    /\ queueClosed = FALSE
    /\ routeCall = << >>
    /\ worker = << >>
    /\ stopPc = "idle"

\* The parts of the package that a specification does not use are not
\* constructed, and stay so.
Unused(used) ==
    /\ IF "retry" \in used THEN TRUE ELSE NoRetry
    /\ IF "breaker" \in used THEN TRUE ELSE NoBreaker
    /\ IF "fallback" \in used THEN TRUE ELSE NoFallback
    /\ IF "reset" \in used THEN TRUE ELSE NoReset
    /\ IF "manager" \in used THEN TRUE ELSE NoManager
    /\ IF "limiter" \in used THEN TRUE ELSE NoLimiter
    /\ IF "adaptive" \in used THEN TRUE ELSE NoAdaptive
    /\ IF "factory" \in used THEN TRUE ELSE NoFactory
    /\ IF "calculate" \in used THEN TRUE ELSE NoCalculate
    /\ IF "typed" \in used THEN TRUE ELSE NoTyped
    /\ IF "notify" \in used THEN TRUE ELSE NoNotify
    /\ IF "lock" \in used THEN TRUE ELSE NoLock
    /\ IF "peruser" \in used THEN TRUE ELSE NoPerUser
    /\ IF "tiers" \in used THEN TRUE ELSE NoTiers
    /\ IF "webhook" \in used THEN TRUE ELSE NoWebhook
    /\ IF "rotate" \in used THEN TRUE ELSE NoRotate
    /\ IF "async" \in used THEN TRUE ELSE NoAsync

Rest(used) ==
    /\ IF "retry" \in used THEN TRUE ELSE UNCHANGED retryVars
    /\ IF "breaker" \in used THEN TRUE ELSE UNCHANGED breakerVars
    /\ IF "fallback" \in used THEN TRUE ELSE UNCHANGED fallbackVars
    /\ IF "reset" \in used THEN TRUE ELSE UNCHANGED resetVars
    /\ IF "manager" \in used THEN TRUE ELSE UNCHANGED managerVars
    /\ IF "limiter" \in used THEN TRUE ELSE UNCHANGED limiterVars
    /\ IF "adaptive" \in used THEN TRUE ELSE UNCHANGED adaptiveVars
    /\ IF "factory" \in used THEN TRUE ELSE UNCHANGED chainVars
    /\ IF "calculate" \in used THEN TRUE ELSE UNCHANGED calculateVars
    /\ IF "typed" \in used THEN TRUE ELSE UNCHANGED typedVars
    /\ IF "notify" \in used THEN TRUE ELSE UNCHANGED notifyVars
    /\ IF "lock" \in used THEN TRUE ELSE UNCHANGED lockVars
    /\ IF "peruser" \in used THEN TRUE ELSE UNCHANGED perUserVars
    /\ IF "tiers" \in used THEN TRUE ELSE UNCHANGED tierVars
    /\ IF "webhook" \in used THEN TRUE ELSE UNCHANGED webhookVars
    /\ IF "rotate" \in used THEN TRUE ELSE UNCHANGED rotateVars
    /\ IF "async" \in used THEN TRUE ELSE UNCHANGED asyncVars

\* ---------------------------------------------------------------- WithRetry

\* line 83: the loop condition
LoopCondition_Exclusive(a, p) == a < p.MaxRetries

LoopCondition_UnlessCancelled(a, p) == a <= p.MaxRetries /\ ctxErr = Nil

LoopCondition(a, p) == a <= p.MaxRetries

\* line 90
NextLastErr_FirstOnly(old, err) == IF old = Nil THEN err ELSE old

NextLastErr(old, err) == err

\* line 114
MaxRetriesExceeded_NilOfNil(err) ==
    IF err = Nil THEN Nil ELSE Wrap("max retries exceeded", err)

MaxRetriesExceeded(err) == Wrap("max retries exceeded", err)

\* line 108
RetryCancelled(err) == Wrap("retry cancelled", err)

\* lines 106-107: a blocked select is woken by the context's Done channel
SelectOnDone_Ignored(w) == w

SelectOnDone(w) == IF w = "none" THEN "ctx" ELSE w

\* lines 106-111 on entry: the cases already ready when the select is reached.
\* Done is ready if the context is cancelled; the timer can be ready only if
\* its duration is zero. A ready case is taken (either one, if both are).
SelectPoll(err, d) ==
    (IF err # Nil THEN {"ctx"} ELSE {"none"}) \cup (IF d = 0 THEN {"timer"} ELSE {})

\* The classification the retry executor is specified with, stated apart from
\* IsRetryable: err is a failure that no configured retryable set excludes.
FailsRetryably(p, err) ==
    /\ err # Nil
    /\ \/ p.RetryableErrors = {}
       \/ \E t \in p.RetryableErrors : ErrorsIs(err, t)

FailsNonRetryably(p, err) ==
    /\ err # Nil
    /\ p.RetryableErrors # {}
    /\ \A t \in p.RetryableErrors : ~ErrorsIs(err, t)

RetryInit ==
    /\ \E p \in PolicyArgs : policy = EffectivePolicy(p)
    /\ pc = "loop"
    /\ attempt = 0
    /\ lastErr = Nil
    /\ backoff = 0
    /\ woken = "none"
    /\ ctxErr = Nil
    /\ result = Nil
    /\ calls = 0
    /\ waits = 0
    /\ lastOutcome = Nil
    /\ allRetryable = TRUE
    /\ cancelCalls = -1
    /\ Unused({"retry"})

\* lines 98-100: no wait after the last attempt
LastAttempt_Never(a, p) == FALSE

LastAttempt(a, p) == a = p.MaxRetries

\* line 103: the attempt that CalculateBackoff is asked for
BackoffAttempt_Same(a) == a

BackoffAttempt(a) == a + 1

\* lines 83-111: one iteration, up to the return or to the select
Attempt(err) ==
    /\ pc = "loop"
    /\ LoopCondition(attempt, policy)
    /\ calls' = calls + 1
    /\ lastOutcome' = err
    /\ allRetryable' = (allRetryable /\ FailsRetryably(policy, err))
    /\ UNCHANGED <<policy, attempt, ctxErr, cancelCalls>>
    /\ IF err = Nil
       THEN /\ pc' = "returned"
            /\ result' = Nil
            /\ UNCHANGED <<lastErr, backoff, woken, waits>>
       ELSE /\ lastErr' = NextLastErr(lastErr, err)
            /\ IF ~IsRetryable(policy, err)
               THEN /\ pc' = "returned"
                    /\ result' = err
                    /\ UNCHANGED <<backoff, woken, waits>>
               ELSE IF LastAttempt(attempt, policy)
               THEN /\ pc' = "returned"
                    /\ result' = MaxRetriesExceeded(lastErr')
                    /\ UNCHANGED <<backoff, woken, waits>>
               ELSE /\ \E r \in 0..(JitterSteps - 1) :
                            backoff' = CalculateBackoff(policy, BackoffAttempt(attempt), r)
                    /\ woken' \in SelectPoll(ctxErr, backoff')
                    /\ waits' = waits + 1
                    /\ pc' = "select"
                    /\ UNCHANGED result

\* line 83 false, then line 114
LoopExit ==
    /\ pc = "loop"
    /\ ~LoopCondition(attempt, policy)
    /\ pc' = "returned"
    /\ result' = MaxRetriesExceeded(lastErr)
    /\ UNCHANGED <<policy, attempt, lastErr, backoff, woken, ctxErr, calls,
                   waits, lastOutcome, allRetryable, cancelCalls>>

\* The caller cancels the context, or its deadline passes.
Cancel ==
    /\ ctxErr = Nil
    /\ pc # "returned"
    /\ ctxErr' \in {ContextCanceled, ContextDeadlineExceeded}
    /\ IF pc = "select" /\ woken = "none"
       THEN /\ woken' = SelectOnDone(woken)
            /\ cancelCalls' = calls
       ELSE UNCHANGED <<woken, cancelCalls>>
    /\ UNCHANGED <<policy, pc, attempt, lastErr, backoff, result, calls, waits,
                   lastOutcome, allRetryable>>

\* line 109: the timer of time.After(backoff) fires on a blocked select
TimerFires ==
    /\ pc = "select"
    /\ woken = "none"
    /\ woken' = "timer"
    /\ UNCHANGED <<policy, pc, attempt, lastErr, backoff, ctxErr, result, calls,
                   waits, lastOutcome, allRetryable, cancelCalls>>

\* lines 107-111: the select returns through the case that woke it
SelectReturn ==
    /\ pc = "select"
    /\ woken # "none"
    /\ IF woken = "ctx"
       THEN /\ pc' = "returned"
            /\ result' = RetryCancelled(ctxErr)
            /\ UNCHANGED attempt
       ELSE /\ pc' = "loop"
            /\ attempt' = attempt + 1
            /\ UNCHANGED result
    /\ UNCHANGED <<policy, lastErr, backoff, woken, ctxErr, calls, waits,
                   lastOutcome, allRetryable, cancelCalls>>

\* One WithRetry call runs alone: nothing else of the package is in use.
RetryNext ==
    \/ \E err \in Outcomes : Attempt(err) /\ Rest({"retry"})
    \/ LoopExit /\ Rest({"retry"})
    \/ Cancel /\ Rest({"retry"})
    \/ TimerFires /\ Rest({"retry"})
    \/ SelectReturn /\ Rest({"retry"})

SpecRetry == RetryInit /\ [][RetryNext]_vars

\* The goroutine of WithRetry, once woken from its select, is scheduled.
SpecRetryFair == SpecRetry /\ WF_vars(SelectReturn /\ Rest({"retry"}))

\* What WithRetry does by itself: fn returns whenever it is invoked, the
\* timer of time.After fires, and the goroutine is scheduled. The context
\* may be cancelled or not.
RetryRuns ==
    \/ \E err \in Outcomes : Attempt(err) /\ Rest({"retry"})
    \/ LoopExit /\ Rest({"retry"})
    \/ TimerFires /\ Rest({"retry"})
    \/ SelectReturn /\ Rest({"retry"})

SpecRetryRuns == SpecRetry /\ WF_vars(RetryRuns)

\* ------------------------------------------------------- circuit breaker

Callers == 1..NumCallers

\* gobreaker.State.String()
StateClosed == "closed"
StateHalfOpen == "half-open"
StateOpen == "open"

\* What Execute returns: the wrapped function's own result, or a rejection.
ErrOpenState == "circuit breaker is open"
ErrTooManyRequests == "too many requests"
FnSucceeded == "fn: nil"
FnFailed == "fn: error"

\* The zero time.Time: the clock starts after it.
ZeroTime == 0

\* The configs a caller passes (durations in clock ticks). MaxRequests 0 and
\* Interval 0 are what a config that leaves the fields out holds; the Timeout
\* is always set (gobreaker reads a Timeout of 0 as 60 seconds).
GivenConfigs ==
    [MaxRequests : 0..2, Interval : {0, 3}, Timeout : {2},
     FailureThreshold : 1..MaxThreshold, SuccessThreshold : {1, 2}]

\* gobreaker.Counts
ZeroCounts ==
    [Requests |-> 0, TotalSuccesses |-> 0, TotalFailures |-> 0,
     ConsecutiveSuccesses |-> 0, ConsecutiveFailures |-> 0]

CountsOnRequest(c) == [c EXCEPT !.Requests = @ + 1]

CountsOnSuccess(c) ==
    [c EXCEPT !.TotalSuccesses = @ + 1, !.ConsecutiveSuccesses = @ + 1,
              !.ConsecutiveFailures = 0]

CountsOnFailure(c) ==
    [c EXCEPT !.TotalFailures = @ + 1, !.ConsecutiveFailures = @ + 1,
              !.ConsecutiveSuccesses = 0]

\* lines 243-245: the ReadyToTrip of the settings
ReadyToTrip_Above(cfg, c) == c.ConsecutiveFailures > cfg.FailureThreshold

ReadyToTrip(cfg, c) == c.ConsecutiveFailures >= cfg.FailureThreshold

\* lines 238-242: the settings handed to gobreaker.NewCircuitBreaker, which
\* reads a MaxRequests of 0 as 1. SuccessThreshold is not among them.
MaxRequestsOf(cfg) == IF cfg.MaxRequests = 0 THEN 1 ELSE cfg.MaxRequests

\* cb.toNewGeneration(now)
ToNewGeneration_KeepsCounts(cfg, b, t) ==
    [b EXCEPT !.generation = @ + 1,
              !.expiry = CASE b.state = StateClosed ->
                                IF cfg.Interval = 0 THEN ZeroTime ELSE t + cfg.Interval
                           [] b.state = StateOpen -> t + cfg.Timeout
                           [] OTHER -> ZeroTime]

ToNewGeneration(cfg, b, t) ==
    [b EXCEPT !.generation = @ + 1,
              !.counts = ZeroCounts,
              !.expiry = CASE b.state = StateClosed ->
                                IF cfg.Interval = 0 THEN ZeroTime ELSE t + cfg.Interval
                           [] b.state = StateOpen -> t + cfg.Timeout
                           [] OTHER -> ZeroTime]

\* cb.setState(state, now)
SetState(cfg, b, st, t) ==
    IF b.state = st THEN b
    ELSE ToNewGeneration(cfg, [b EXCEPT !.state = st], t)

\* cb.currentState(now): the breaker after the lazy expiry check
CurrentState_AtExpiry(cfg, b, t) ==
    CASE b.state = StateClosed ->
            IF b.expiry # ZeroTime /\ b.expiry < t THEN ToNewGeneration(cfg, b, t) ELSE b
      [] b.state = StateOpen ->
            IF b.expiry <= t THEN SetState(cfg, b, StateHalfOpen, t) ELSE b
      [] OTHER -> b

CurrentState(cfg, b, t) ==
    CASE b.state = StateClosed ->
            IF b.expiry # ZeroTime /\ b.expiry < t THEN ToNewGeneration(cfg, b, t) ELSE b
      [] b.state = StateOpen ->
            IF b.expiry < t THEN SetState(cfg, b, StateHalfOpen, t) ELSE b
      [] OTHER -> b

\* cb.beforeRequest, its decision on the current state
Admission_OpenAdmits(cfg, b) ==
    IF b.state = StateHalfOpen /\ b.counts.Requests >= MaxRequestsOf(cfg)
    THEN ErrTooManyRequests
    ELSE "admitted"

Admission_OneMore(cfg, b) ==
    IF b.state = StateOpen THEN ErrOpenState
    ELSE IF b.state = StateHalfOpen /\ b.counts.Requests > MaxRequestsOf(cfg)
    THEN ErrTooManyRequests
    ELSE "admitted"

Admission(cfg, b) ==
    IF b.state = StateOpen THEN ErrOpenState
    ELSE IF b.state = StateHalfOpen /\ b.counts.Requests >= MaxRequestsOf(cfg)
    THEN ErrTooManyRequests
    ELSE "admitted"

\* cb.onSuccess(state, now)
OnSuccess(cfg, b, t) ==
    CASE b.state = StateClosed -> [b EXCEPT !.counts = CountsOnSuccess(@)]
      [] b.state = StateHalfOpen ->
            LET b1 == [b EXCEPT !.counts = CountsOnSuccess(@)]
            IN  IF b1.counts.ConsecutiveSuccesses >= MaxRequestsOf(cfg)
                THEN SetState(cfg, b1, StateClosed, t)
                ELSE b1
      [] OTHER -> b

\* cb.onFailure(state, now)
OnFailure_HalfOpenCounts(cfg, b, t) ==
    CASE b.state \in {StateClosed, StateHalfOpen} ->
            LET b1 == [b EXCEPT !.counts = CountsOnFailure(@)]
            IN  IF ReadyToTrip(cfg, b1.counts)
                THEN SetState(cfg, b1, StateOpen, t)
                ELSE b1
      [] OTHER -> b

OnFailure(cfg, b, t) ==
    CASE b.state = StateClosed ->
            LET b1 == [b EXCEPT !.counts = CountsOnFailure(@)]
            IN  IF ReadyToTrip(cfg, b1.counts)
                THEN SetState(cfg, b1, StateOpen, t)
                ELSE b1
      [] b.state = StateHalfOpen -> SetState(cfg, b, StateOpen, t)
      [] OTHER -> b

\* gobreaker.NewCircuitBreaker(settings) at time t
NewBreaker(cfg, t) ==
    ToNewGeneration(cfg,
        [state |-> StateClosed, generation |-> 0, counts |-> ZeroCounts,
         expiry |-> ZeroTime], t)

\* lines 233-258: NewCircuitBreaker(name, config)
NewCircuitBreaker ==
    /\ config \in GivenConfigs
    /\ now = 1
    /\ breaker = NewBreaker(config, now)
    /\ running = [c \in Callers |-> FALSE]
    /\ before = [c \in Callers |-> 0]
    /\ probe = [c \in Callers |-> FALSE]
    /\ returned = [c \in Callers |-> "nothing"]
    /\ execs = 0
    /\ changedAt = 1
    /\ probes = 0
    /\ failRun = 0
    /\ failRunGen = 0
    /\ succRun = 0

BreakerInit ==
    /\ NewCircuitBreaker
    /\ Unused({"breaker"})

\* How the bookkeeping of the runs follows a step that leaves the breaker as
\* b1: a new period starts the count of probes and of successes again, and a
\* new generation the count of the failures that generation has seen.
Bookkeeping(b1) ==
    /\ changedAt' = IF b1.state # breaker.state THEN now ELSE changedAt
    /\ probes' = IF b1.state # breaker.state THEN 0 ELSE probes
    /\ succRun' = IF b1.state # breaker.state THEN 0 ELSE succRun
    /\ failRunGen' = IF b1.generation # breaker.generation THEN 0 ELSE failRunGen
    /\ failRun' = IF b1.state # breaker.state THEN 0 ELSE failRun

\* lines 261-263, first half: Execute up to the invocation of fn, or to its
\* rejection (cb.beforeRequest)
BeforeRequest(c) ==
    /\ ~running[c]
    /\ execs < MaxExecs
    /\ execs' = execs + 1
    /\ LET b1 == CurrentState(config, breaker, now)
           verdict == Admission(config, b1)
       IN  IF verdict = "admitted"
           THEN /\ breaker' = [b1 EXCEPT !.counts = CountsOnRequest(@)]
                /\ running' = [running EXCEPT ![c] = TRUE]
                /\ before' = [before EXCEPT ![c] = b1.generation]
                /\ probe' = [probe EXCEPT ![c] = (b1.state = StateHalfOpen)]
                /\ probes' = IF b1.state # StateHalfOpen THEN 0
                             ELSE IF b1.state # breaker.state THEN 1
                             ELSE probes + 1
                /\ changedAt' = IF b1.state # breaker.state THEN now ELSE changedAt
                /\ succRun' = IF b1.state # breaker.state THEN 0 ELSE succRun
                /\ failRunGen' = IF b1.generation # breaker.generation THEN 0 ELSE failRunGen
                /\ failRun' = IF b1.state # breaker.state THEN 0 ELSE failRun
                /\ returned' = [returned EXCEPT ![c] = "nothing"]
           ELSE /\ breaker' = b1
                /\ returned' = [returned EXCEPT ![c] = verdict]
                /\ Bookkeeping(b1)
                /\ UNCHANGED <<running, before, probe>>
    /\ UNCHANGED <<config, now>>

\* lines 261-263, second half: fn returns and Execute returns its result
\* (cb.afterRequest)
AfterRequest(c, success) ==
    /\ running[c]
    /\ LET b1 == CurrentState(config, breaker, now)
           counted == b1.generation = before[c]
           b2 == IF ~counted THEN b1
                 ELSE IF success THEN OnSuccess(config, b1, now)
                 ELSE OnFailure(config, b1, now)
       IN  /\ breaker' = b2
           /\ changedAt' = IF b2.state # breaker.state THEN now ELSE changedAt
           /\ probes' = IF b2.state # breaker.state THEN 0 ELSE probes
           /\ succRun' = IF b2.state # breaker.state THEN 0
                         ELSE IF ~counted \/ ~probe[c] THEN succRun
                         ELSE IF success THEN succRun + 1
                         ELSE 0
           /\ failRun' = IF b2.state = StateClosed /\ breaker.state # StateClosed THEN 0
                         ELSE IF b1.state # StateClosed THEN 0
                         ELSE IF success THEN 0
                         ELSE failRun + 1
           /\ failRunGen' = IF b1.state # StateClosed THEN 0
                            ELSE IF b1.generation # breaker.generation THEN 0
                            ELSE IF ~counted THEN failRunGen
                            ELSE IF success THEN 0
                            ELSE failRunGen + 1
    /\ running' = [running EXCEPT ![c] = FALSE]
    /\ before' = [before EXCEPT ![c] = 0]
    /\ probe' = [probe EXCEPT ![c] = FALSE]
    /\ returned' = [returned EXCEPT ![c] = IF success THEN FnSucceeded ELSE FnFailed]
    /\ UNCHANGED <<config, now, execs>>

\* lines 266-268, and through them GetStats (lines 377-388) and the loop of
\* MonitorCircuitBreakers (lines 416-424): cb.breaker.State()
State ==
    /\ LET b1 == CurrentState(config, breaker, now)
       IN  /\ breaker' = b1
           /\ Bookkeeping(b1)
    /\ UNCHANGED <<config, now, running, before, probe, returned, execs>>

\* lines 271-273: cb.breaker.Counts() returns the counts as they are
Counts ==
    /\ breaker # << >>
    /\ UNCHANGED breakerVars

\* Time passes.
Tick ==
    /\ breaker # << >>
    /\ now < MaxTime
    /\ now' = now + 1
    /\ UNCHANGED <<config, breaker, running, before, probe, returned, execs,
                   changedAt, probes, failRun, failRunGen, succRun>>

\* The callers use Execute, State and Counts of one breaker.
BreakerNext ==
    \/ \E c \in Callers : BeforeRequest(c) /\ Rest({"breaker"})
    \/ \E c \in Callers : \E success \in BOOLEAN :
            AfterRequest(c, success) /\ Rest({"breaker"})
    \/ State /\ Rest({"breaker"})
    \/ Counts /\ Rest({"breaker"})
    \/ Tick /\ Rest({"breaker"})

SpecBreaker == BreakerInit /\ [][BreakerNext]_vars

\* ----------------------------------------------------- ExecuteWithFallback

\* The number of ExecuteWithFallback calls made, and how long the clock runs.
MaxFallbackExecs == 3
MaxFallbackTime == 4

\* What the wrapped function may return: nil, a failure of its own, or the
\* open-circuit error of another breaker that it calls, wrapped with %w.
ErrDownstreamOpen == Wrap("downstream unavailable", <<ErrOpenState>>)
FnOutcomes == {Nil, ErrNetworkError, ErrDownstreamOpen}

\* What fallback() may return.
ErrFallback == <<"fallback failed">>
FallbackOutcomes == {Nil, ErrFallback}

\* The error Execute returns when gobreaker rejects the request.
Rejection(refusal) == <<refusal>>

\* lines 335-338: the conditions under which fallback() is called
UsesFallback_AnyError(err, fb) == err # Nil /\ fb

UsesFallback(err, fb) ==
    /\ err # Nil
    /\ \/ ErrorsIs(err, Rejection(ErrOpenState))
       \/ ErrorsIs(err, Rejection(ErrTooManyRequests))
    /\ fb

\* What is recorded of the call beside its result: the error fn returned (nil
\* if it was not invoked), whether the generation the call was admitted in
\* was still the breaker's when fn returned, and whether the failure went
\* into the breaker's tally (one more failure counted, or the breaker opened).
NotInvoked == [fnErr |-> Nil, current |-> FALSE, counted |-> FALSE]

\* No ExecuteWithFallback of the caller has returned yet.
NoOutcome == [by |-> "nobody", err |-> Nil] @@ NotInvoked

\* lines 335-344: what ExecuteWithFallback returns once Execute has returned err
FallbackReturn(c, err, fb, seen) ==
    IF UsesFallback(err, fb)
    THEN \E fe \in FallbackOutcomes :
            outcome' = [outcome EXCEPT ![c] = [by |-> "fallback", err |-> fe] @@ seen]
    ELSE outcome' = [outcome EXCEPT ![c] = [by |-> "primary", err |-> err] @@ seen]

\* The breaker is configured as in the README: no statistical window, and
\* the default SuccessThreshold.
FallbackInit ==
    /\ NewCircuitBreaker
    /\ config.Interval = 0
    /\ config.SuccessThreshold = 2
    /\ fbGiven = [c \in Callers |-> FALSE]
    /\ outcome = [c \in Callers |-> NoOutcome]
    /\ Unused({"breaker", "fallback"})

\* lines 332-345, up to the invocation of fn by Execute (line 333), or to the
\* return when Execute rejects the request
ExecuteWithFallback_Before(c, fb) ==
    /\ execs < MaxFallbackExecs
    /\ BeforeRequest(c)
    /\ fbGiven' = [fbGiven EXCEPT ![c] = fb]
    /\ IF running'[c]
       THEN outcome' = [outcome EXCEPT ![c] = NoOutcome]
       ELSE FallbackReturn(c, Rejection(returned'[c]), fb, NotInvoked)

\* lines 332-345, from the return of fn
ExecuteWithFallback_After(c, fnErr) ==
    /\ AfterRequest(c, fnErr = Nil)
    /\ FallbackReturn(c, fnErr, fbGiven[c],
            [fnErr |-> fnErr,
             current |-> before[c] = CurrentState(config, breaker, now).generation,
             counted |-> \/ breaker'.counts.TotalFailures = breaker.counts.TotalFailures + 1
                         \/ breaker.state # StateOpen /\ breaker'.state = StateOpen])
    /\ UNCHANGED fbGiven

FallbackTick ==
    /\ now < MaxFallbackTime
    /\ Tick
    /\ UNCHANGED fallbackVars

\* The callers use ExecuteWithFallback of one breaker.
FallbackNext ==
    \/ \E c \in Callers : \E fb \in BOOLEAN :
            ExecuteWithFallback_Before(c, fb) /\ Rest({"breaker", "fallback"})
    \/ \E c \in Callers : \E fnErr \in FnOutcomes :
            ExecuteWithFallback_After(c, fnErr) /\ Rest({"breaker", "fallback"})
    \/ FallbackTick /\ Rest({"breaker", "fallback"})

SpecFallback == FallbackInit /\ [][FallbackNext]_vars

\* ------------------------------------------------------------------- Reset

\* The number of Execute calls made beside the Resets, and how long the
\* clock runs.
MaxResetExecs == 3
MaxResetTime == 4

\* line 408: the callers whose Execute has read cb.breaker (line 262) and
\* runs on the gobreaker that the assignment replaces: all the running ones
Replaced_None(run) == [c \in DOMAIN run |-> FALSE]

Replaced(run) == run

ResetInit ==
    /\ NewCircuitBreaker
    /\ config.SuccessThreshold = 2
    /\ replaced = [c \in Callers |-> FALSE]
    /\ sinceReset = "never"
    /\ Unused({"breaker", "reset"})

\* lines 391-409: Reset makes a gobreaker from the same settings and puts it
\* in place of the old one, which the running calls keep
Reset ==
    /\ breaker' = NewBreaker(config, now)
    /\ replaced' = [c \in Callers |-> replaced[c] \/ Replaced(running)[c]]
    /\ sinceReset' = "clean"
    /\ changedAt' = now
    /\ probes' = 0
    /\ failRun' = 0
    /\ failRunGen' = 0
    /\ succRun' = 0
    /\ UNCHANGED <<config, now, running, before, probe, returned, execs>>

\* lines 261-263, first half, on the gobreaker cb.breaker holds at the moment
ResetExecute_Before(c) ==
    /\ execs < MaxResetExecs
    /\ BeforeRequest(c)
    /\ replaced' = [replaced EXCEPT ![c] = FALSE]
    /\ sinceReset' = IF sinceReset = "clean" /\ running'[c] THEN "admitted" ELSE sinceReset

\* lines 261-263, second half: the result goes to the gobreaker the call
\* was admitted by, which is no longer cb.breaker if Reset has replaced it
ResetExecute_After(c, success) ==
    /\ IF replaced[c]
       THEN /\ running[c]
            /\ running' = [running EXCEPT ![c] = FALSE]
            /\ before' = [before EXCEPT ![c] = 0]
            /\ probe' = [probe EXCEPT ![c] = FALSE]
            /\ returned' = [returned EXCEPT ![c] = IF success THEN FnSucceeded ELSE FnFailed]
            /\ UNCHANGED <<config, breaker, now, execs, changedAt, probes, failRun,
                           failRunGen, succRun>>
       ELSE AfterRequest(c, success)
    /\ replaced' = [replaced EXCEPT ![c] = FALSE]
    /\ sinceReset' = IF ~replaced[c] /\ sinceReset = "admitted" THEN "completed"
                     ELSE sinceReset

ResetState ==
    /\ State
    /\ UNCHANGED resetVars

ResetTick ==
    /\ now < MaxResetTime
    /\ Tick
    /\ UNCHANGED resetVars

\* The callers use Execute, State and Reset of one breaker.
ResetNext ==
    \/ \E c \in Callers : ResetExecute_Before(c) /\ Rest({"breaker", "reset"})
    \/ \E c \in Callers : \E success \in BOOLEAN :
            ResetExecute_After(c, success) /\ Rest({"breaker", "reset"})
    \/ Reset /\ Rest({"breaker", "reset"})
    \/ ResetState /\ Rest({"breaker", "reset"})
    \/ ResetTick /\ Rest({"breaker", "reset"})

SpecReset == ResetInit /\ [][ResetNext]_vars

\* ----------------------------------------------------- CircuitBreakerManager

\* The goroutines that call Get concurrently, and the number of Get calls.
NumGetters == 2
MaxGets == 3

Getters == 1..NumGetters

\* The dependency names Get is called with.
Names == {"stripe", "plaid"}

\* The configs Get is called with: they differ in the FailureThreshold.
ManagerConfigs ==
    {c \in GivenConfigs : c.MaxRequests = 1 /\ c.Interval = 0 /\ c.SuccessThreshold = 2}

\* No breaker: the zero value of the map lookup.
NoInstance == 0

NotCalling == [pc |-> "idle", name |-> "", config |-> << >>, breaker |-> NoInstance,
               result |-> NoInstance]

\* lines 287-291: NewCircuitBreakerManager
ManagerInit ==
    /\ breakers = [n \in Names |-> NoInstance]
    /\ mu = [readers |-> {}, writer |-> 0]
    /\ get = [g \in Getters |-> NotCalling]
    /\ constructed = << >>
    /\ handedOut = [n \in Names |-> {}]
    /\ gets = 0
    /\ Unused({"manager"})

\* line 299: exists, for the lookup of lines 296
Exists(b) == b # NoInstance

\* line 307: the second lookup, under the write lock
DoubleCheck_Skipped(b) == FALSE

DoubleCheck(b) == Exists(b)

\* Get returns b to goroutine g
GetReturns(g, b) ==
    /\ get' = [get EXCEPT ![g] = [NotCalling EXCEPT !.name = get[g].name, !.result = b]]
    /\ handedOut' = [handedOut EXCEPT ![get[g].name] = @ \cup {b}]

\* lines 294-296: Get(name, config) takes the read lock, which no writer
\* holds, and looks the name up
GetRLock(g, name, cfg) ==
    /\ get[g].pc = "idle"
    /\ gets < MaxGets
    /\ mu.writer = 0
    /\ gets' = gets + 1
    /\ mu' = [mu EXCEPT !.readers = @ \cup {g}]
    /\ get' = [get EXCEPT ![g] = [pc |-> "rlocked", name |-> name, config |-> cfg,
                                  breaker |-> breakers[name], result |-> NoInstance]]
    /\ UNCHANGED <<breakers, constructed, handedOut>>

\* lines 297-301: the read lock is released; a breaker that was found is returned
GetRUnlock(g) ==
    /\ get[g].pc = "rlocked"
    /\ mu' = [mu EXCEPT !.readers = @ \ {g}]
    /\ IF Exists(get[g].breaker)
       THEN GetReturns(g, get[g].breaker)
       ELSE /\ get' = [get EXCEPT ![g].pc = "lock"]
            /\ UNCHANGED handedOut
    /\ UNCHANGED <<breakers, constructed, gets>>

\* line 303: the write lock is taken once nobody holds the mutex
GetLock(g) ==
    /\ get[g].pc = "lock"
    /\ mu.writer = 0
    /\ mu.readers = {}
    /\ mu' = [mu EXCEPT !.writer = g]
    /\ get' = [get EXCEPT ![g].pc = "locked"]
    /\ UNCHANGED <<breakers, constructed, handedOut, gets>>

\* lines 306-312: the second lookup; if the name has no breaker still, one
\* is made from the config of this call and registered
GetCreate(g) ==
    /\ get[g].pc = "locked"
    /\ IF DoubleCheck(breakers[get[g].name])
       THEN /\ get' = [get EXCEPT ![g].pc = "unlock", ![g].breaker = breakers[get[g].name]]
            /\ UNCHANGED <<breakers, constructed>>
       ELSE /\ constructed' = Append(constructed,
                                [name |-> get[g].name, config |-> get[g].config])
            /\ breakers' = [breakers EXCEPT ![get[g].name] = Len(constructed) + 1]
            /\ get' = [get EXCEPT ![g].pc = "unlock", ![g].breaker = Len(constructed) + 1]
    /\ UNCHANGED <<mu, handedOut, gets>>

\* lines 304, 308, 313: the return, and the deferred Unlock
GetUnlock(g) ==
    /\ get[g].pc = "unlock"
    /\ mu' = [mu EXCEPT !.writer = 0]
    /\ GetReturns(g, get[g].breaker)
    /\ UNCHANGED <<breakers, constructed, gets>>

ManagerNext ==
    \/ \E g \in Getters : \E name \in Names : \E cfg \in ManagerConfigs :
            GetRLock(g, name, cfg) /\ Rest({"manager"})
    \/ \E g \in Getters : GetRUnlock(g) /\ Rest({"manager"})
    \/ \E g \in Getters : GetLock(g) /\ Rest({"manager"})
    \/ \E g \in Getters : GetCreate(g) /\ Rest({"manager"})
    \/ \E g \in Getters : GetUnlock(g) /\ Rest({"manager"})

SpecManager == ManagerInit /\ [][ManagerNext]_vars

\* ------------------------------------------------------------- RateLimiter

\* Time is counted in clock ticks and a token bucket in ticks of refill: a
\* limiter of Period p (1/RequestsPerSecond, in ticks) gains one unit per
\* tick, a token is p units, and a bucket of Burst b holds b * p units.

\* The largest Period and Burst a config is given, how long the clock of
\* the limiters runs, and the number of Allow calls made.
MaxPeriod == 2
MaxBurst == 2
MaxClock == 5
MaxAllows == 4

\* The configs a caller passes: every one of the repository sets a positive
\* rate and Burst; WaitTimeout 0 is no timeout.
GivenRateLimits ==
    [Period : 1..MaxPeriod, Burst : 1..MaxBurst, WaitTimeout : {0, 1, 3}]

\* rate.InfDuration, and a context without a deadline
InfDuration == -1
NoDeadline == 0

Min(a, b) == IF a <= b THEN a ELSE b

\* rate.NewLimiter(r, b): the bucket starts full
NewLimiter(cfg) ==
    [tokens |-> cfg.Burst * cfg.Period, last |-> ZeroTime, lastEvent |-> ZeroTime]

\* lim.advance(t): the tokens the bucket holds at t
Advance(cfg, lim, t) == Min(cfg.Burst * cfg.Period, lim.tokens + (t - lim.last))

\* lim.reserveN(t, 1, maxFutureReserve): the reservation, and the limiter after it
ReserveN_NoRefillCap(cfg, lim, t, maxFutureReserve) ==
    LET tokens == (lim.tokens + (t - lim.last)) - cfg.Period
        waitDuration == IF tokens < 0 THEN -tokens ELSE 0
        ok == /\ 1 <= cfg.Burst
              /\ maxFutureReserve = InfDuration \/ waitDuration <= maxFutureReserve
    IN  [ok |-> ok,
         timeToAct |-> IF ok THEN t + waitDuration ELSE ZeroTime,
         lim |-> IF ok THEN [tokens |-> tokens, last |-> t, lastEvent |-> t + waitDuration]
                 ELSE lim]

ReserveN(cfg, lim, t, maxFutureReserve) ==
    LET tokens == Advance(cfg, lim, t) - cfg.Period
        waitDuration == IF tokens < 0 THEN -tokens ELSE 0
        ok == /\ 1 <= cfg.Burst
              /\ maxFutureReserve = InfDuration \/ waitDuration <= maxFutureReserve
    IN  [ok |-> ok,
         timeToAct |-> IF ok THEN t + waitDuration ELSE ZeroTime,
         lim |-> IF ok THEN [tokens |-> tokens, last |-> t, lastEvent |-> t + waitDuration]
                 ELSE lim]

\* r.CancelAt(t) of a granted reservation of one token due at timeToAct: the
\* token goes back unless it is already due or later reservations rest on it
CancelAt(cfg, lim, timeToAct, t) ==
    LET restoreTokens == cfg.Period - (lim.lastEvent - timeToAct)
        prevEvent == timeToAct - cfg.Period
    IN  IF timeToAct < t \/ restoreTokens <= 0 THEN lim
        ELSE [tokens |-> Min(cfg.Burst * cfg.Period, Advance(cfg, lim, t) + restoreTokens),
              last |-> t,
              lastEvent |-> IF timeToAct = lim.lastEvent /\ prevEvent >= t
                            THEN prevEvent ELSE lim.lastEvent]

\* lines 453-458: NewRateLimiter(config), nothing asked yet
NewRateLimiter ==
    /\ rlConfig \in GivenRateLimits
    /\ limiter = NewLimiter(rlConfig)
    /\ clock = 1
    /\ allowLog = << >>

AllowInit ==
    /\ NewRateLimiter
    /\ waiting = << >>
    /\ Unused({"limiter"})

\* lines 471-473: Allow is reserveN(now, 1, 0).ok
Allow ==
    /\ Len(allowLog) < MaxAllows
    /\ LET r == ReserveN(rlConfig, limiter, clock, 0)
       IN  /\ limiter' = r.lim
           /\ allowLog' = Append(allowLog, [at |-> clock, ok |-> r.ok])
    /\ UNCHANGED <<rlConfig, clock, waiting>>

\* Time passes.
LimiterTick ==
    /\ clock < MaxClock
    /\ clock' = clock + 1
    /\ UNCHANGED <<rlConfig, limiter, waiting, allowLog>>

\* The callers use Allow of one limiter.
AllowNext ==
    \/ Allow /\ Rest({"limiter"})
    \/ LimiterTick /\ Rest({"limiter"})

SpecAllow == AllowInit /\ [][AllowNext]_vars

\* ------------------------------------------------- RateLimiter.WaitOrError

\* line 604
ErrRateLimitExceeded == <<"rate limit exceeded">>

\* lines 607-612: WaitOrError(ctx) is Allow, and ErrRateLimitExceeded when
\* Allow says no; neither ctx nor the WaitTimeout is looked at
WaitOrError ==
    /\ Len(allowLog) < MaxAllows
    /\ LET r == ReserveN(rlConfig, limiter, clock, 0)
       IN  /\ limiter' = r.lim
           /\ allowLog' = Append(allowLog,
                    [at |-> clock, ok |-> r.ok,
                     result |-> IF ~r.ok THEN ErrRateLimitExceeded ELSE Nil])
    /\ UNCHANGED <<rlConfig, clock, waiting>>

\* lines 453-458: NewRateLimiter(config) with a config that sets a
\* WaitTimeout
WaitOrErrorInit ==
    /\ NewRateLimiter
    /\ rlConfig.WaitTimeout > 0
    /\ waiting = << >>
    /\ Unused({"limiter"})

\* The callers use WaitOrError of one limiter.
WaitOrErrorNext ==
    \/ WaitOrError /\ Rest({"limiter"})
    \/ LimiterTick /\ Rest({"limiter"})

SpecWaitOrError == WaitOrErrorInit /\ [][WaitOrErrorNext]_vars

\* -------------------------------------------------------- RateLimiter.Wait

\* The callers that wait concurrently, how long their clock runs, and the
\* deadline of a caller's context that has one, from the call.
NumWaiters == 2
MaxWaitClock == 3
CtxTimeout == 2

Waiters == 1..NumWaiters

\* The errors of rate.Limiter.Wait that are not the context's.
ErrWouldExceed == <<"rate: Wait(n=1) would exceed context deadline">>
ErrExceedsBurst == <<"rate: Wait(n=1) exceeds limiter's burst">>

\* A caller that is not in Wait. Of a call are kept: the context handed to
\* rate.Limiter.Wait (its deadline, whether it was cancelled), the
\* backoffUntil an AdaptiveRateLimiter.Wait has read, when the token it
\* reserved is due, whether Reset has replaced the limiter the reservation
\* is on (old), and what the call returned.
NotWaiting ==
    [pc |-> "idle", cancelled |-> FALSE, deadline |-> NoDeadline,
     backoff |-> 0, old |-> FALSE, timeToAct |-> 0, result |-> Nil]

\* The contexts a caller passes: one without deadline, one with, and one
\* that is cancelled already.
GivenContexts(t) ==
    {[cancelled |-> FALSE, deadline |-> NoDeadline],
     [cancelled |-> FALSE, deadline |-> t + CtxTimeout],
     [cancelled |-> TRUE, deadline |-> NoDeadline]}

\* lines 462-467: the deadline of the context handed to rate.Limiter.Wait
WaitDeadline_NoTimeout(cfg, ctx, t) == ctx.deadline

WaitDeadline(cfg, ctx, t) ==
    IF cfg.WaitTimeout > 0
    THEN IF ctx.deadline = NoDeadline THEN t + cfg.WaitTimeout
         ELSE Min(ctx.deadline, t + cfg.WaitTimeout)
    ELSE ctx.deadline

\* <-ctx.Done() is ready, and ctx.Err()
CtxDone(w, t) == w.cancelled \/ (w.deadline # NoDeadline /\ t >= w.deadline)

CtxErr(w, t) ==
    IF w.cancelled THEN ContextCanceled
    ELSE IF w.deadline # NoDeadline /\ t >= w.deadline THEN ContextDeadlineExceeded
    ELSE Nil

Returned(w, err) ==
    [w EXCEPT !.pc = "returned", !.result = err, !.timeToAct = 0, !.old = FALSE,
              !.backoff = 0]

\* rate.Limiter.Wait(ctx) up to its return or to its select, for a call w
\* whose context is set: the call after it, and the limiter
LimiterWait(cfg, lim, w, t) ==
    IF 1 > cfg.Burst THEN [w |-> Returned(w, ErrExceedsBurst), lim |-> lim]
    ELSE IF CtxDone(w, t) THEN [w |-> Returned(w, CtxErr(w, t)), lim |-> lim]
    ELSE LET waitLimit == IF w.deadline = NoDeadline THEN InfDuration
                          ELSE w.deadline - t
             r == ReserveN(cfg, lim, t, waitLimit)
         IN  IF ~r.ok THEN [w |-> Returned(w, ErrWouldExceed), lim |-> lim]
             ELSE IF r.timeToAct = t THEN [w |-> Returned(w, Nil), lim |-> r.lim]
             ELSE [w |-> [w EXCEPT !.pc = "sleeping", !.timeToAct = r.timeToAct],
                   lim |-> r.lim]

\* A call made at t with context ctx.
NewWait(cfg, ctx, t) ==
    [NotWaiting EXCEPT !.cancelled = ctx.cancelled,
                       !.deadline = WaitDeadline(cfg, ctx, t)]

WaitInit ==
    /\ NewRateLimiter
    /\ waiting = [w \in Waiters |-> NotWaiting]
    /\ Unused({"limiter"})

\* lines 462-467: caller w is in Wait(ctx), up to its return or to the select
\* of rate.Limiter.Wait; no token is reserved that is due after the clock
\* stops
LimiterEnter(w, ctx) ==
    /\ LET got == LimiterWait(rlConfig, limiter, NewWait(rlConfig, ctx, clock), clock)
       IN  /\ got.w.timeToAct <= MaxWaitClock
           /\ waiting' = [waiting EXCEPT ![w] = got.w]
           /\ limiter' = got.lim
    /\ UNCHANGED <<rlConfig, clock, allowLog>>

\* lines 461-468: Wait(ctx)
Wait(w, ctx) ==
    /\ waiting[w].pc = "idle"
    /\ LimiterEnter(w, ctx)

\* The select of rate.Limiter.Wait returns: through the timer when the token
\* is due, or through ctx.Done(), giving the reservation back, when the
\* context is done; through either one when both are ready.
WaitWake(w) ==
    /\ waiting[w].pc = "sleeping"
    /\ \/ /\ clock >= waiting[w].timeToAct
          /\ waiting' = [waiting EXCEPT ![w] = Returned(@, Nil)]
          /\ UNCHANGED limiter
       \/ /\ CtxDone(waiting[w], clock)
          /\ waiting' = [waiting EXCEPT ![w] = Returned(@, CtxErr(@, clock))]
          /\ limiter' = IF waiting[w].old THEN limiter
                        ELSE CancelAt(rlConfig, limiter, waiting[w].timeToAct, clock)
    /\ UNCHANGED <<rlConfig, clock, allowLog>>

\* The caller cancels the context of its blocked Wait.
WaitCancel(w) ==
    /\ waiting[w].pc \in {"sleeping", "backoff"}
    /\ ~CtxDone(waiting[w], clock)
    /\ waiting' = [waiting EXCEPT ![w].cancelled = TRUE]
    /\ UNCHANGED <<rlConfig, limiter, clock, allowLog>>

\* The caller has the return of its Wait, and may call again.
WaitDone(w) ==
    /\ waiting[w].pc = "returned"
    /\ waiting' = [waiting EXCEPT ![w] = NotWaiting]
    /\ UNCHANGED <<rlConfig, limiter, clock, allowLog>>

WaitTick == LimiterTick /\ clock < MaxWaitClock

\* The callers use Wait of one limiter.
WaitNext ==
    \/ \E w \in Waiters : \E ctx \in GivenContexts(clock) :
            Wait(w, ctx) /\ Rest({"limiter"})
    \/ \E w \in Waiters : WaitWake(w) /\ Rest({"limiter"})
    \/ \E w \in Waiters : WaitCancel(w) /\ Rest({"limiter"})
    \/ \E w \in Waiters : WaitDone(w) /\ Rest({"limiter"})
    \/ WaitTick /\ Rest({"limiter"})

SpecWait == WaitInit /\ [][WaitNext]_vars

\* ---------------------------------------------------- AdaptiveRateLimiter

\* The callers that wait concurrently, and the longest retryAfter that
\* OnRateLimitError is given.
NumAdaptiveWaiters == 1
MaxRetryAfter == 2

AdaptiveWaiters == 1..NumAdaptiveWaiters

\* The contexts a caller passes have no deadline.
AdaptiveContexts(t) == {ctx \in GivenContexts(t) : ctx.deadline = NoDeadline}

\* lines 555-560: NewAdaptiveRateLimiter(config); the configs have no
\* WaitTimeout
AdaptiveInit ==
    /\ NewRateLimiter
    /\ rlConfig.WaitTimeout = 0
    /\ waiting = [w \in AdaptiveWaiters |-> NotWaiting]
    /\ backoffUntil = ZeroTime
    /\ owed = 0
    /\ cleared = FALSE
    /\ Unused({"limiter", "adaptive"})

\* line 569: time.Now().Before(backoffUntil)
Before_Never(t, u) == FALSE

Before(t, u) == t < u

\* lines 563-580: Wait(ctx), up to the select of the backoff when
\* backoffUntil is ahead, and as RateLimiter.Wait on a.limiter otherwise
AdaptiveWait(w, ctx) ==
    /\ waiting[w].pc = "idle"
    /\ IF Before(clock, backoffUntil)
       THEN /\ waiting' = [waiting EXCEPT ![w] =
                              [NotWaiting EXCEPT !.pc = "backoff",
                                                 !.cancelled = ctx.cancelled,
                                                 !.deadline = ctx.deadline,
                                                 !.backoff = backoffUntil]]
            /\ UNCHANGED <<rlConfig, limiter, clock, allowLog>>
       ELSE LimiterEnter(w, ctx)
    /\ UNCHANGED adaptiveVars

\* lines 571-576, 579: the select of the backoff returns, through ctx.Done()
\* with the context's error, or through the timer, and then Wait goes on as
\* RateLimiter.Wait on the limiter that a.limiter is by then
BackoffWake(w) ==
    /\ waiting[w].pc = "backoff"
    /\ \/ /\ CtxDone(waiting[w], clock)
          /\ waiting' = [waiting EXCEPT ![w] = Returned(@, CtxErr(@, clock))]
          /\ UNCHANGED <<rlConfig, limiter, clock, allowLog>>
       \/ /\ clock >= waiting[w].backoff
          /\ LimiterEnter(w, [cancelled |-> waiting[w].cancelled,
                              deadline |-> waiting[w].deadline])
    /\ UNCHANGED adaptiveVars

\* line 588: time.Now().Add(retryAfter), assigned whatever backoffUntil was
BackoffDeadline_Longest(t, retryAfter) ==
    IF backoffUntil > t + retryAfter THEN backoffUntil ELSE t + retryAfter

BackoffDeadline(t, retryAfter) == t + retryAfter

\* lines 583-592: OnRateLimitError(retryAfter)
OnRateLimitError(retryAfter) ==
    /\ backoffUntil' = BackoffDeadline(clock, retryAfter)
    /\ owed' = IF owed >= clock + retryAfter THEN owed ELSE clock + retryAfter
    /\ cleared' = FALSE
    /\ UNCHANGED limiterVars

\* line 600: the backoffUntil that Reset leaves
ClearedBackoff_Kept(b) == b

ClearedBackoff(b) == ZeroTime

\* lines 595-601: Reset(); the Wait calls blocked in rate.Limiter.Wait keep
\* their reservation on the limiter that is replaced
AdaptiveReset ==
    /\ limiter' = NewLimiter(rlConfig)
    /\ backoffUntil' = ClearedBackoff(backoffUntil)
    /\ owed' = 0
    /\ cleared' = TRUE
    /\ waiting' = [w \in DOMAIN waiting |->
                      IF waiting[w].pc = "sleeping"
                      THEN [waiting[w] EXCEPT !.old = TRUE] ELSE waiting[w]]
    /\ UNCHANGED <<rlConfig, clock, allowLog>>

\* The callers use Wait, OnRateLimitError and Reset of one
\* AdaptiveRateLimiter.
AdaptiveNext ==
    \/ \E w \in AdaptiveWaiters : \E ctx \in AdaptiveContexts(clock) :
            AdaptiveWait(w, ctx) /\ Rest({"limiter", "adaptive"})
    \/ \E w \in AdaptiveWaiters : BackoffWake(w) /\ Rest({"limiter", "adaptive"})
    \/ \E w \in AdaptiveWaiters : WaitWake(w) /\ Rest({"limiter"})
    \/ \E w \in AdaptiveWaiters : WaitCancel(w) /\ Rest({"limiter"})
    \/ \E w \in AdaptiveWaiters : WaitDone(w) /\ Rest({"limiter"})
    \/ \E d \in 1..MaxRetryAfter : OnRateLimitError(d) /\ Rest({"limiter", "adaptive"})
    \/ AdaptiveReset /\ Rest({"limiter", "adaptive"})
    \/ WaitTick /\ Rest({"limiter"})

SpecAdaptive == AdaptiveInit /\ [][AdaptiveNext]_vars

\* ------------------------------------------------------------ Factory.Create

\* The providers created, the Authenticate calls made through them, how long
\* their clock runs, and the largest MaxRetries of a policy.
MaxProviders == 2
MaxChainCalls == 2
MaxChainTime == 2
MaxChainRetries == 2

\* The ProviderConfigs handed to Create set all three of RetryPolicy,
\* RateLimitConfig and CircuitBreaker.
GivenProviderConfigs ==
    [RetryPolicy : {p \in GivenPolicies :
                        /\ p.MaxRetries \in 0..MaxChainRetries
                        /\ p.InitialInterval = 0 /\ ~p.RandomizeJitter
                        /\ p.RetryableErrors = {}},
     RateLimitConfig : {l \in GivenRateLimits :
                            l.Period = 1 /\ l.Burst = 1 /\ l.WaitTimeout = 0},
     CircuitBreaker : {c \in GivenConfigs :
                            /\ c.MaxRequests = 0 /\ c.Interval = 0
                            /\ c.SuccessThreshold = 1}]

\* What the registered provider's Authenticate returns.
ProviderOutcomes == {Nil, ErrNetworkError}

\* No call is going through a wrapped provider; n counts the calls made. Of
\* a call are kept: the provider, the generation of the breaker that
\* admitted it, when the token it reserved is due, the attempt of WithRetry,
\* the error on its way back, and what the call has done: the layers it
\* passed, in order, the tokens it took of the limiter, the results the
\* breaker recorded of it, and whether the provider has failed every time.
NoCall ==
    [pc |-> "idle", n |-> 0, provider |-> 0, generation |-> 0, timeToAct |-> 0,
     attempt |-> 0, err |-> Nil, passed |-> << >>, tokens |-> 0, recorded |-> 0,
     allFailed |-> TRUE]

\* NewFactory, nothing created yet
FactoryInit ==
    /\ providerConfig \in GivenProviderConfigs
    /\ wrapped = << >>
    /\ inCall = NoCall
    /\ chainNow = 1
    /\ Unused({"factory"})

\* lines 45-93: Create(ctx, config) for a registered name; each call makes a
\* RateLimiter and a CircuitBreaker of its own (lines 77, 85)
Create(name) ==
    /\ Len(wrapped) < MaxProviders
    /\ wrapped' = Append(wrapped,
            [name |-> name,
             policy |-> providerConfig.RetryPolicy,
             limiter |-> NewLimiter(providerConfig.RateLimitConfig),
             breaker |-> NewBreaker(providerConfig.CircuitBreaker, chainNow)])
    /\ UNCHANGED <<providerConfig, inCall, chainNow>>

\* lines 151-157: Authenticate of the provider Create returned, which is the
\* CircuitBreakerWrapper, up to the admission of breaker.Execute; a call the
\* breaker rejects returns
CircuitBreakerWrapper_Authenticate(i) ==
    /\ inCall.pc \in {"idle", "returned"}
    /\ inCall.n < MaxChainCalls
    /\ LET cfg == providerConfig.CircuitBreaker
           b == CurrentState(cfg, wrapped[i].breaker, chainNow)
           verdict == Admission(cfg, b)
           c == [NoCall EXCEPT !.n = inCall.n + 1, !.provider = i,
                               !.passed = <<"breaker">>]
       IN  IF verdict = "admitted"
           THEN /\ wrapped' = [wrapped EXCEPT ![i].breaker =
                                   [b EXCEPT !.counts = CountsOnRequest(@)]]
                /\ inCall' = [c EXCEPT !.pc = "limiter", !.generation = b.generation]
           ELSE /\ wrapped' = [wrapped EXCEPT ![i].breaker = b]
                /\ inCall' = [c EXCEPT !.pc = "returned", !.err = Rejection(verdict)]
    /\ UNCHANGED <<providerConfig, chainNow>>

\* lines 127-132: Authenticate of the RateLimitWrapper, which the breaker
\* runs, up to the select of limiter.Wait, or to its return with the error
\* of a Wait whose token would be due after the WaitTimeout; the caller's
\* context has no deadline and is not cancelled
RateLimitWrapper_Authenticate ==
    /\ inCall.pc = "limiter"
    /\ LET i == inCall.provider
           cfg == providerConfig.RateLimitConfig
           r == ReserveN(cfg, wrapped[i].limiter, chainNow,
                         IF cfg.WaitTimeout > 0 THEN cfg.WaitTimeout ELSE InfDuration)
       IN  IF r.ok
           THEN /\ wrapped' = [wrapped EXCEPT ![i].limiter = r.lim]
                /\ inCall' = [inCall EXCEPT
                        !.pc = IF r.timeToAct > chainNow THEN "waiting" ELSE "retry",
                        !.timeToAct = r.timeToAct,
                        !.passed = Append(@, "limiter"),
                        !.tokens = @ + 1]
           ELSE /\ inCall' = [inCall EXCEPT !.pc = "after",
                                            !.err = ErrWouldExceed,
                                            !.passed = Append(@, "limiter")]
                /\ UNCHANGED wrapped
    /\ UNCHANGED <<providerConfig, chainNow>>

\* limiter.Wait returns when the token is due
LimiterWaitOver ==
    /\ inCall.pc = "waiting"
    /\ chainNow >= inCall.timeToAct
    /\ inCall' = [inCall EXCEPT !.pc = "retry"]
    /\ UNCHANGED <<providerConfig, wrapped, chainNow>>

\* lines 105-109: Authenticate of the RetryWrapper, which the
\* RateLimitWrapper calls: one turn of the loop of WithRetry around the
\* registered provider's Authenticate, which returns err
RetryWrapper_Authenticate(err) ==
    /\ inCall.pc = "retry"
    /\ LET p == wrapped[inCall.provider].policy
           c == [inCall EXCEPT !.passed = Append(@, "provider"),
                               !.allFailed = @ /\ err # Nil]
       IN  inCall' =
               IF err = Nil \/ ~IsRetryable(p, err)
               THEN [c EXCEPT !.pc = "after", !.err = err]
               ELSE IF LoopCondition(inCall.attempt + 1, p)
               THEN [c EXCEPT !.attempt = @ + 1]
               ELSE [c EXCEPT !.pc = "after", !.err = MaxRetriesExceeded(err)]
    /\ UNCHANGED <<providerConfig, wrapped, chainNow>>

\* lines 152-156: breaker.Execute records what the RateLimitWrapper
\* returned, unless the breaker has passed on to another generation, and
\* the call returns
CircuitBreakerWrapper_Return ==
    /\ inCall.pc = "after"
    /\ LET i == inCall.provider
           cfg == providerConfig.CircuitBreaker
           b == CurrentState(cfg, wrapped[i].breaker, chainNow)
           current == b.generation = inCall.generation
       IN  /\ wrapped' = [wrapped EXCEPT ![i].breaker =
                              IF ~current THEN b
                              ELSE IF inCall.err = Nil THEN OnSuccess(cfg, b, chainNow)
                              ELSE OnFailure(cfg, b, chainNow)]
           /\ inCall' = [inCall EXCEPT !.pc = "returned",
                                       !.recorded = IF current THEN @ + 1 ELSE @]
    /\ UNCHANGED <<providerConfig, chainNow>>

\* Time passes.
ChainTick ==
    /\ chainNow < MaxChainTime
    /\ chainNow' = chainNow + 1
    /\ UNCHANGED <<providerConfig, wrapped, inCall>>

\* Callers create providers of a factory and call Authenticate through
\* them, one call at a time.
ChainNext ==
    \/ \E name \in Names : Create(name) /\ Rest({"factory"})
    \/ \E i \in DOMAIN wrapped : CircuitBreakerWrapper_Authenticate(i) /\ Rest({"factory"})
    \/ RateLimitWrapper_Authenticate /\ Rest({"factory"})
    \/ LimiterWaitOver /\ Rest({"factory"})
    \/ \E err \in ProviderOutcomes : RetryWrapper_Authenticate(err) /\ Rest({"factory"})
    \/ CircuitBreakerWrapper_Return /\ Rest({"factory"})
    \/ ChainTick /\ Rest({"factory"})

SpecChain == FactoryInit /\ [][ChainNext]_vars

\* The same, with a RateLimitConfig that sets a WaitTimeout: a token that is
\* due within it (Period 1) is waited for, one due later (Period 2) is not.
TimeoutProviderConfigs ==
    [RetryPolicy : {p \in GivenPolicies :
                        /\ p.MaxRetries \in 0..MaxChainRetries
                        /\ p.InitialInterval = 0 /\ ~p.RandomizeJitter
                        /\ p.RetryableErrors = {}},
     RateLimitConfig : {l \in GivenRateLimits :
                            l.Period \in 1..2 /\ l.Burst = 1 /\ l.WaitTimeout = 1},
     CircuitBreaker : {c \in GivenConfigs :
                            /\ c.MaxRequests = 0 /\ c.Interval = 0
                            /\ c.SuccessThreshold = 1}]

TimeoutInit ==
    /\ providerConfig \in TimeoutProviderConfigs
    /\ wrapped = << >>
    /\ inCall = NoCall
    /\ chainNow = 1
    /\ Unused({"factory"})

SpecChainTimeout == TimeoutInit /\ [][ChainNext]_vars

\* --------------------------------------------------------- CalculateBackoff

\* The largest Multiplier of a policy, the largest attempt asked for, and
\* the number of CalculateBackoff calls made on one policy.
MaxMultiplier == 3
MaxBackoffAttempt == 4
MaxBackoffCalls == 2

\* The policies CalculateBackoff is called on (durations in milliseconds);
\* nothing checks the fields of a RetryPolicy, and a field left out of the
\* literal is 0.
BackoffPolicies ==
    [MaxRetries : {3}, InitialInterval : {0, 1, 10}, MaxInterval : {5, 100},
     Multiplier : 0..MaxMultiplier, RandomizeJitter : BOOLEAN,
     RetryableErrors : {{}}]

BackoffInit ==
    /\ backoffPolicy \in BackoffPolicies
    /\ backoffCalls = << >>
    /\ Unused({"calculate"})

\* lines 54-74: p.CalculateBackoff(attempt), in which rand.Float64() returns
\* r / JitterSteps
CalculateBackoff_Call(n, r) ==
    /\ Len(backoffCalls) < MaxBackoffCalls
    /\ backoffCalls' = Append(backoffCalls,
            [attempt |-> n, r |-> r, delay |-> CalculateBackoff(backoffPolicy, n, r)])
    /\ UNCHANGED backoffPolicy

BackoffNext ==
    \E n \in -1..MaxBackoffAttempt : \E r \in 0..(JitterSteps - 1) :
        CalculateBackoff_Call(n, r) /\ Rest({"calculate"})

SpecBackoff == BackoffInit /\ [][BackoffNext]_vars

\* ------------------------------------------------ PerUserRateLimitMiddleware

\* The handler that PerUserRateLimitMiddleware returns, run by the server
\* on one goroutine per connection. The limiters map is a plain Go map that
\* the handler reads and writes without a lock; the runtime stops the
\* process when it detects a write to a map that runs beside another access
\* of it, and does not always detect it. The requests arrive within one
\* refill period of the limiters: a bucket holds burst tokens and gets none
\* back.

\* The goroutines that run the handler, the requests that arrive and the
\* largest burst the middleware is made with.
NumHandlers == 2
MaxServed == 3
MaxUserBurst == 2

Handlers == 1..NumHandlers

\* What c.Locals("user_id") holds (NoUser: nothing, or not a string), and c.IP()
NoUser == "none"
UserIDs == {NoUser, "alice"}
ClientIPs == {"10.0.0.1"}

\* lines 30-33: the key of the request
UserKey(userID, ip) == IF userID # NoUser THEN userID ELSE ip

UserKeys == {UserKey(u, ip) : u \in UserIDs, ip \in ClientIPs}

StatusNext == "c.Next()"
StatusTooManyRequests == "429"

NotHandling == [pc |-> "idle", key |-> NoUser, limiter |-> 0, response |-> "none"]

\* lines 25-26
PerUserInit ==
    /\ userLimiters = [k \in UserKeys |-> 0]
    /\ userCreated = << >>
    /\ userTokens \in [{0} -> 1..MaxUserBurst]
    /\ handling = [g \in Handlers |-> NotHandling]
    /\ served = 0
    /\ fatal = FALSE
    /\ Unused({"peruser"})

\* The bucket size the middleware was made with (kept at index 0).
UserBurst == userTokens[0]

\* lines 28-33: a request arrives
Handle(g, userID, ip) ==
    /\ ~fatal
    /\ handling[g].pc = "idle"
    /\ served < MaxServed
    /\ served' = served + 1
    /\ handling' = [handling EXCEPT ![g] =
            [NotHandling EXCEPT !.pc = "lookup", !.key = UserKey(userID, ip)]]
    /\ UNCHANGED <<userLimiters, userCreated, userTokens, fatal>>

\* line 36
LookupLimiter(g) ==
    /\ ~fatal
    /\ handling[g].pc = "lookup"
    /\ LET found == userLimiters[handling[g].key]
       IN  handling' = [handling EXCEPT ![g].limiter = found,
                                        ![g].pc = IF found # 0 THEN "allow" ELSE "create"]
    /\ UNCHANGED <<userLimiters, userCreated, userTokens, served, fatal>>

\* Another goroutine is at an access of the map.
MapInUse(g) ==
    \E h \in Handlers \ {g} : handling[h].pc \in {"lookup", "create"}

\* lines 38-39
CreateLimiter(g) ==
    /\ ~fatal
    /\ handling[g].pc = "create"
    /\ LET id == Len(userCreated) + 1
       IN  /\ userCreated' = Append(userCreated, handling[g].key)
           /\ userTokens' = [i \in 0..id |-> IF i = id THEN UserBurst ELSE userTokens[i]]
           /\ userLimiters' = [userLimiters EXCEPT ![handling[g].key] = id]
           /\ handling' = [handling EXCEPT ![g].limiter = id, ![g].pc = "allow"]
    /\ UNCHANGED <<served, fatal>>

\* line 39, beside another access of the map: "fatal error: concurrent map
\* writes" (or "concurrent map read and map write")
ConcurrentMapWrite(g) ==
    /\ ~fatal
    /\ handling[g].pc = "create"
    /\ MapInUse(g)
    /\ fatal' = TRUE
    /\ UNCHANGED <<userLimiters, userCreated, userTokens, handling, served>>

\* lines 42-50
AllowRequest(g) ==
    /\ ~fatal
    /\ handling[g].pc = "allow"
    /\ LET id == handling[g].limiter
       IN  IF userTokens[id] > 0
           THEN /\ userTokens' = [userTokens EXCEPT ![id] = @ - 1]
                /\ handling' = [handling EXCEPT ![g].pc = "idle",
                                                 ![g].response = StatusNext]
           ELSE /\ handling' = [handling EXCEPT ![g].pc = "idle",
                                                 ![g].response = StatusTooManyRequests]
                /\ UNCHANGED userTokens
    /\ UNCHANGED <<userLimiters, userCreated, served, fatal>>

PerUserNext ==
    \/ \E g \in Handlers : \E u \in UserIDs : \E ip \in ClientIPs :
            Handle(g, u, ip) /\ Rest({"peruser"})
    \/ \E g \in Handlers : LookupLimiter(g) /\ Rest({"peruser"})
    \/ \E g \in Handlers : CreateLimiter(g) /\ Rest({"peruser"})
    \/ \E g \in Handlers : ConcurrentMapWrite(g) /\ Rest({"peruser"})
    \/ \E g \in Handlers : AllowRequest(g) /\ Rest({"peruser"})

SpecPerUser == PerUserInit /\ [][PerUserNext]_vars

\* ------------------------------------------------------ MultiTierRateLimiter

\* One MultiTierRateLimiter, with goroutines that call AddTier and Wait.
\* AddTier runs under m.mu and the lookup of Wait under its read lock: each
\* is one step. The Wait of the RateLimiter found (line 511) is a step of
\* its own, which takes a token of that limiter's bucket or fails.

\* The goroutines that call Wait, the number of AddTier and of Wait calls.
NumTierWaiters == 2
MaxTierAdds == 2
MaxTierWaits == 2

TierWaiters == 1..NumTierWaiters

\* The tier names the callers use, and the bursts of the configs they pass.
Tiers == {"free", "premium"}
TierBursts == {1, 2}

\* line 508: fmt.Errorf("tier %s not found", tier)
TierNotFound(tier) == <<"tier not found", tier>>

NoTierWait == [pc |-> "idle", tier |-> "", limiter |-> 0, result |-> Nil]

\* lines 487-491: NewMultiTierRateLimiter
TierInit ==
    /\ tierLimiters = [t \in Tiers |-> 0]
    /\ tierMade = << >>
    /\ tierTaken = << >>
    /\ tierWait = [g \in TierWaiters |-> NoTierWait]
    /\ tierWaits = 0
    /\ Unused({"tiers"})

\* line 498: the assignment to the map
AddTier_Store_KeepsFirst(m, tier, id) ==
    IF m[tier] # 0 THEN m ELSE [m EXCEPT ![tier] = id]

AddTier_Store(m, tier, id) == [m EXCEPT ![tier] = id]

\* lines 495-499
AddTier(tier, burst) ==
    /\ Len(tierMade) < MaxTierAdds
    /\ LET id == Len(tierMade) + 1
       IN  /\ tierMade' = Append(tierMade, [tier |-> tier, burst |-> burst])
           /\ tierTaken' = Append(tierTaken, 0)
           /\ tierLimiters' = AddTier_Store(tierLimiters, tier, id)
    /\ UNCHANGED <<tierWait, tierWaits>>

\* lines 502-509: the lookup, and the return for a tier that has no entry
TierWait_Lookup(g, tier) ==
    /\ tierWait[g].pc = "idle"
    /\ tierWaits < MaxTierWaits
    /\ tierWaits' = tierWaits + 1
    /\ LET found == tierLimiters[tier]
       IN  tierWait' = [tierWait EXCEPT ![g] =
                IF found = 0
                THEN [pc |-> "idle", tier |-> tier, limiter |-> 0,
                      result |-> TierNotFound(tier)]
                ELSE [pc |-> "waiting", tier |-> tier, limiter |-> found,
                      result |-> Nil]]
    /\ UNCHANGED <<tierLimiters, tierMade, tierTaken>>

\* line 511: limiter.Wait(ctx) on the limiter found, which returns nil
\* once it has taken a token, or an error of the context or of the bucket
TierWait_Limiter(g, err) ==
    /\ tierWait[g].pc = "waiting"
    /\ tierWait' = [tierWait EXCEPT ![g].pc = "idle", ![g].result = err]
    /\ tierTaken' = IF err = Nil
                    THEN [tierTaken EXCEPT ![tierWait[g].limiter] = @ + 1]
                    ELSE tierTaken
    /\ UNCHANGED <<tierLimiters, tierMade, tierWaits>>

TierNext ==
    \/ \E t \in Tiers : \E b \in TierBursts : AddTier(t, b) /\ Rest({"tiers"})
    \/ \E g \in TierWaiters : \E t \in Tiers :
            TierWait_Lookup(g, t) /\ Rest({"tiers"})
    \/ \E g \in TierWaiters : \E err \in {Nil, ContextDeadlineExceeded} :
            TierWait_Limiter(g, err) /\ Rest({"tiers"})

SpecTiers == TierInit /\ [][TierNext]_vars

\* --------------------------------------------------------- IdempotentReceiver

\* One IdempotentReceiver whose Receiver has handlers registered for the
\* type of the events delivered, and no verifier that rejects them. The
\* HTTP server runs ProcessEvent on one goroutine per delivery. The
\* tracker's map is a plain Go map used without a lock: the runtime stops
\* the process when it detects a write to it beside another access, and
\* does not always detect it.

\* The goroutines that deliver, the ProcessEvent calls made and the
\* handlers registered for the event type.
NumDeliverers == 2
MaxDeliveries == 3
NumEventHandlers == 2

Deliverers == 1..NumDeliverers
EventHandlers == 1..NumEventHandlers
EventIDs == {"evt_1", "evt_2"}

\* receiver.go line 85
ErrHandler == <<"handler error for event", "handler failed">>

NotDelivering == [pc |-> "idle", id |-> "", next |-> 0, result |-> Nil]

\* receiver.go lines 144-148 and 178-183
WebhookInit ==
    /\ processed = {}
    /\ delivery = [g \in Deliverers |-> NotDelivering]
    /\ completed = [id \in EventIDs |-> [h \in EventHandlers |-> 0]]
    /\ deliveries = 0
    /\ trackerFatal = FALSE
    /\ Unused({"webhook"})

\* receiver.go lines 151-154
IsProcessed(set, id) == id \in set

\* receiver.go lines 186-196: ProcessEvent up to the idempotency check
Deliver(g, id) ==
    /\ ~trackerFatal
    /\ delivery[g].pc = "idle"
    /\ deliveries < MaxDeliveries
    /\ deliveries' = deliveries + 1
    /\ delivery' = [delivery EXCEPT ![g] =
            IF IsProcessed(processed, id)
            THEN [pc |-> "idle", id |-> id, next |-> 0, result |-> Nil]
            ELSE [pc |-> "handlers", id |-> id, next |-> 1, result |-> Nil]]
    /\ UNCHANGED <<processed, completed, trackerFatal>>

\* receiver.go lines 199-201 and 83-87: the Receiver runs the next handler
RunHandler(g, ok) ==
    /\ ~trackerFatal
    /\ delivery[g].pc = "handlers"
    /\ LET id == delivery[g].id
           h == delivery[g].next
       IN  IF ok
           THEN /\ completed' = [completed EXCEPT ![id][h] = @ + 1]
                /\ delivery' = [delivery EXCEPT
                        ![g].next = h + 1,
                        ![g].pc = IF h = NumEventHandlers THEN "mark" ELSE "handlers"]
           ELSE /\ delivery' = [delivery EXCEPT ![g].pc = "idle",
                                                 ![g].result = ErrHandler]
                /\ UNCHANGED completed
    /\ UNCHANGED <<processed, deliveries, trackerFatal>>

\* receiver.go lines 204-205 and 157-159
MarkProcessed(g) ==
    /\ ~trackerFatal
    /\ delivery[g].pc = "mark"
    /\ processed' = processed \cup {delivery[g].id}
    /\ delivery' = [delivery EXCEPT ![g].pc = "idle"]
    /\ UNCHANGED <<completed, deliveries, trackerFatal>>

\* receiver.go line 158, beside the write of another delivery: "fatal
\* error: concurrent map writes"
ConcurrentMark(g) ==
    /\ ~trackerFatal
    /\ delivery[g].pc = "mark"
    /\ \E h \in Deliverers \ {g} : delivery[h].pc = "mark"
    /\ trackerFatal' = TRUE
    /\ UNCHANGED <<processed, delivery, completed, deliveries>>

WebhookNext ==
    \/ \E g \in Deliverers : \E id \in EventIDs : Deliver(g, id) /\ Rest({"webhook"})
    \/ \E g \in Deliverers : \E ok \in BOOLEAN : RunHandler(g, ok) /\ Rest({"webhook"})
    \/ \E g \in Deliverers : MarkProcessed(g) /\ Rest({"webhook"})
    \/ \E g \in Deliverers : ConcurrentMark(g) /\ Rest({"webhook"})

SpecWebhook == WebhookInit /\ [][WebhookNext]_vars

\* ---------------------------------------------------- IdempotencyMiddleware

\* The fiber handler that IdempotencyMiddleware(tracker) returns, in front of
\* a downstream handler that succeeds or fails. The server runs it on one
\* goroutine per request; processed is the tracker's map, completed counts
\* for each key the requests the downstream handler has handled with
\* success. A request carries an Idempotency-Key header or none.
NoKey == ""
IdempotencyKeys == {NoKey, "key_1", "key_2"}

\* middleware/webhook.go lines 60-62
AlreadyProcessed == <<"status", "already_processed">>

IdempotencyInit ==
    /\ processed = {}
    /\ delivery = [g \in Deliverers |-> NotDelivering]
    /\ completed = [k \in IdempotencyKeys |-> 0]
    /\ deliveries = 0
    /\ trackerFatal = FALSE
    /\ Unused({"webhook"})

\* middleware/webhook.go lines 55-69: the handler up to c.Next(), or to the
\* response for a key that is in the tracker
IdempotencyMiddleware(g, key) ==
    /\ ~trackerFatal
    /\ delivery[g].pc = "idle"
    /\ deliveries < MaxDeliveries
    /\ deliveries' = deliveries + 1
    /\ delivery' = [delivery EXCEPT ![g] =
            IF key # NoKey /\ IsProcessed(processed, key)
            THEN [pc |-> "idle", id |-> key, next |-> 0, result |-> AlreadyProcessed]
            ELSE [pc |-> "next", id |-> key, next |-> 0, result |-> Nil]]
    /\ UNCHANGED <<processed, completed, trackerFatal>>

\* middleware/webhook.go line 66: the deferred call is made when the
\* handler returns, whatever c.Next() returned
Deferred(err) == TRUE

\* middleware/webhook.go line 69: c.Next() returns what the downstream
\* handler returned, and the handler returns it after the deferred call,
\* when it has deferred one
DownstreamReturns(g, err) ==
    /\ ~trackerFatal
    /\ delivery[g].pc = "next"
    /\ completed' = IF err = Nil THEN [completed EXCEPT ![delivery[g].id] = @ + 1]
                    ELSE completed
    /\ delivery' = [delivery EXCEPT
            ![g].pc = IF delivery[g].id # NoKey /\ Deferred(err) THEN "deferred"
                      ELSE "idle",
            ![g].result = err]
    /\ UNCHANGED <<processed, deliveries, trackerFatal>>

\* middleware/webhook.go line 66 and receiver.go lines 157-159
DeferredMark(g) ==
    /\ ~trackerFatal
    /\ delivery[g].pc = "deferred"
    /\ processed' = processed \cup {delivery[g].id}
    /\ delivery' = [delivery EXCEPT ![g].pc = "idle"]
    /\ UNCHANGED <<completed, deliveries, trackerFatal>>

\* receiver.go line 158, beside the write of another request: "fatal
\* error: concurrent map writes"
ConcurrentDeferredMark(g) ==
    /\ ~trackerFatal
    /\ delivery[g].pc = "deferred"
    /\ \E h \in Deliverers \ {g} : delivery[h].pc = "deferred"
    /\ trackerFatal' = TRUE
    /\ UNCHANGED <<processed, delivery, completed, deliveries>>

IdempotencyNext ==
    \/ \E g \in Deliverers : \E key \in IdempotencyKeys :
            IdempotencyMiddleware(g, key) /\ Rest({"webhook"})
    \/ \E g \in Deliverers : \E err \in {Nil, ErrHandler} :
            DownstreamReturns(g, err) /\ Rest({"webhook"})
    \/ \E g \in Deliverers : DeferredMark(g) /\ Rest({"webhook"})
    \/ \E g \in Deliverers : ConcurrentDeferredMark(g) /\ Rest({"webhook"})

SpecIdempotency == IdempotencyInit /\ [][IdempotencyNext]_vars

\* --------------------------------------------------------- CircuitBreaker.mu

\* Reset step by step, beside callers of Execute, State and Counts. Reset
\* takes cb.mu (lines 394-395) around its assignment to cb.breaker (line
\* 408); Execute, State and Counts read cb.breaker (lines 262, 267, 272)
\* without taking it. A read that runs beside the assignment finds the old
\* gobreaker or the new one: it is made before or after the Assign step.

\* The goroutines that call Reset, the number of Execute calls made beside
\* them, and how long the clock runs.
NumResetters == 2
MaxLockExecs == 2
MaxLockTime == 3

Resetters == 1..NumResetters

LockInit ==
    /\ NewCircuitBreaker
    /\ config.SuccessThreshold = 2
    /\ config.MaxRequests = 1
    /\ replaced = [c \in Callers |-> FALSE]
    /\ sinceReset = "never"
    /\ cbMu = 0
    /\ resetPc = [g \in Resetters |-> "idle"]
    /\ racy = [c \in Callers |-> FALSE]
    /\ Unused({"breaker", "reset", "lock"})

\* line 394: cb.mu.Lock()
Reset_Lock(g) ==
    /\ resetPc[g] = "idle"
    /\ cbMu = 0
    /\ cbMu' = g
    /\ resetPc' = [resetPc EXCEPT ![g] = "locked"]
    /\ UNCHANGED <<breakerVars, resetVars, racy>>

\* lines 397-408: the settings, the new gobreaker and the assignment
Reset_Assign(g) ==
    /\ resetPc[g] = "locked"
    /\ Reset
    /\ resetPc' = [resetPc EXCEPT ![g] = "assigned"]
    /\ UNCHANGED <<cbMu, racy>>

\* line 395: the deferred cb.mu.Unlock()
Reset_Unlock(g) ==
    /\ resetPc[g] = "assigned"
    /\ cbMu' = 0
    /\ resetPc' = [resetPc EXCEPT ![g] = "idle"]
    /\ UNCHANGED <<breakerVars, resetVars, racy>>

\* lines 262, 267, 272: caller c reads cb.breaker, whoever holds cb.mu
ReadsBreaker(c) ==
    /\ racy' = [racy EXCEPT ![c] = (cbMu # 0)]
    /\ UNCHANGED <<cbMu, resetPc>>

\* lines 261-263, first half
LockExecute_Before(c) ==
    /\ execs < MaxLockExecs
    /\ ResetExecute_Before(c)
    /\ ReadsBreaker(c)

\* lines 261-263, second half: on the gobreaker read at line 262
LockExecute_After(c, success) ==
    /\ ResetExecute_After(c, success)
    /\ UNCHANGED lockVars

\* lines 266-268
LockState(c) ==
    /\ ResetState
    /\ ReadsBreaker(c)

\* lines 271-273
LockCounts(c) ==
    /\ Counts
    /\ UNCHANGED resetVars
    /\ ReadsBreaker(c)

LockTick ==
    /\ now < MaxLockTime
    /\ Tick
    /\ UNCHANGED <<resetVars, lockVars>>

LockNext ==
    \/ \E g \in Resetters : Reset_Lock(g) /\ Rest({"breaker", "reset", "lock"})
    \/ \E g \in Resetters : Reset_Assign(g) /\ Rest({"breaker", "reset", "lock"})
    \/ \E g \in Resetters : Reset_Unlock(g) /\ Rest({"breaker", "reset", "lock"})
    \/ \E c \in Callers : LockExecute_Before(c) /\ Rest({"breaker", "reset", "lock"})
    \/ \E c \in Callers : \E success \in BOOLEAN :
            LockExecute_After(c, success) /\ Rest({"breaker", "reset", "lock"})
    \/ \E c \in Callers : LockState(c) /\ Rest({"breaker", "reset", "lock"})
    \/ \E c \in Callers : LockCounts(c) /\ Rest({"breaker", "reset", "lock"})
    \/ LockTick /\ Rest({"breaker", "reset", "lock"})

SpecLock == LockInit /\ [][LockNext]_vars

\* ----------------------------------------------------------- OnStateChange

\* A breaker whose config holds an OnStateChange callback. gobreaker calls
\* the callback of its settings (lines 246-250: the one of the config) at
\* the end of setState, on the goroutine of the operation that made the
\* transition and inside the critical section of that operation (Execute's
\* beforeRequest and afterRequest, State), which ends when the callback
\* returns. An operation makes at most one change of state: afterRequest
\* drops the result of a call when its currentState has changed the state.

\* The number of Execute calls made, and how long the clock runs.
MaxNotifyExecs == 3
MaxNotifyTime == 4

\* line 239: the name given to NewCircuitBreaker
BreakerName == "stripe"

NotifyInit ==
    /\ NewCircuitBreaker
    /\ config.SuccessThreshold = 2
    /\ cbMutex = 0
    /\ callback = << >>
    /\ notified = << >>
    /\ blocked = {}
    /\ Unused({"breaker", "notify"})

\* lines 246-250, called by gobreaker's setState: the operation of caller c
\* has changed the state, and runs the callback before it leaves the
\* critical section
OnStateChange(c) ==
    IF breaker'.state # breaker.state
    THEN LET args == [name |-> BreakerName, from |-> breaker.state,
                      to |-> breaker'.state]
         IN  /\ callback' = args
             /\ notified' = Append(notified, args)
             /\ cbMutex' = c
             /\ UNCHANGED blocked
    ELSE UNCHANGED notifyVars

\* lines 261-263, first half: beforeRequest, and the callback it starts
NotifyExecute_Before(c) ==
    /\ cbMutex = 0
    /\ execs < MaxNotifyExecs
    /\ BeforeRequest(c)
    /\ OnStateChange(c)

\* lines 261-263, second half: afterRequest, and the callback it starts
NotifyExecute_After(c, success) ==
    /\ cbMutex = 0
    /\ AfterRequest(c, success)
    /\ OnStateChange(c)

\* lines 266-268: State, and the callback it starts
NotifyState(c) ==
    /\ cbMutex = 0
    /\ State
    /\ OnStateChange(c)

\* lines 261-273: another caller's Execute, State or Counts reaches the
\* gobreaker while the callback runs, and waits for the mutex
NotifyBlocked(c) ==
    /\ cbMutex \notin {0, c}
    /\ c \notin blocked
    /\ blocked' = blocked \cup {c}
    /\ UNCHANGED <<breakerVars, cbMutex, callback, notified>>

\* The callback returns: the operation that called it leaves the critical
\* section, and the waiting callers go on.
CallbackReturns ==
    /\ cbMutex # 0
    /\ cbMutex' = 0
    /\ callback' = << >>
    /\ blocked' = {}
    /\ UNCHANGED <<breakerVars, notified>>

NotifyTick ==
    /\ now < MaxNotifyTime
    /\ Tick
    /\ UNCHANGED notifyVars

NotifyNext ==
    \/ \E c \in Callers : NotifyExecute_Before(c) /\ Rest({"breaker", "notify"})
    \/ \E c \in Callers : \E success \in BOOLEAN :
            NotifyExecute_After(c, success) /\ Rest({"breaker", "notify"})
    \/ \E c \in Callers : NotifyState(c) /\ Rest({"breaker", "notify"})
    \/ \E c \in Callers : NotifyBlocked(c) /\ Rest({"breaker", "notify"})
    \/ CallbackReturns /\ Rest({"breaker", "notify"})
    \/ NotifyTick /\ Rest({"breaker", "notify"})

SpecNotify == NotifyInit /\ [][NotifyNext]_vars

\* --------------------------------------------------------- WithRetryTyped

\* WithRetry runs to its return on a policy argument, a context and an
\* operation; WithRetryTyped then runs on the same policy argument, with an
\* operation that fails as the first did at each invocation (and returns
\* some value with it), with the same draws of rand.Float64() and a context
\* that is done at the same wait.

\* The largest MaxRetries of a policy given to the two functions.
MaxTypedRetries == 1

TypedPolicyArgs ==
    {<<p>> : p \in {q \in GivenPolicies :
                        q.MaxRetries \in -1..MaxTypedRetries}} \cup {NilPolicy}

TypedOutcomes == {Nil, ErrTimeout, ErrNetworkError}

\* line 122: var zero T, with T = int
Zero == 0

\* The values fn may return, with or without an error.
TypedValues == {Zero, 7}

\* lines 140, 150, 157: what is returned with an error
ReturnedWithError_Result(v) == v

ReturnedWithError(v) == Zero

TypedInit ==
    /\ policyArg \in TypedPolicyArgs
    /\ policy = EffectivePolicy(policyArg)
    /\ pc = "loop"
    /\ attempt = 0
    /\ lastErr = Nil
    /\ backoff = 0
    /\ woken = "none"
    /\ ctxErr = Nil
    /\ result = Nil
    /\ calls = 0
    /\ waits = 0
    /\ lastOutcome = Nil
    /\ allRetryable = TRUE
    /\ cancelCalls = -1
    /\ trace = << >>
    \* lines 122-128
    /\ typed = [pc |-> "loop", policy |-> EffectivePolicy(policyArg),
                attempt |-> 0, lastErr |-> Nil, backoff |-> 0,
                result |-> Zero, value |-> Zero, err |-> Nil,
                calls |-> 0, waits |-> 0]
    /\ Unused({"retry", "typed"})

\* An iteration of WithRetry, with what its fn returned and the draw of
\* rand.Float64() written down.
UntypedAttempt(err) ==
    \E r \in 0..(JitterSteps - 1) :
        /\ Attempt(err)
        /\ IF pc' = "select"
           THEN backoff' = CalculateBackoff(policy, BackoffAttempt(attempt), r)
           ELSE r = 0
        /\ trace' = Append(trace, [err |-> err, r |-> r])
        /\ UNCHANGED <<policyArg, typed>>

\* The other steps of WithRetry.
UntypedStep ==
    /\ LoopExit \/ Cancel \/ TimerFires \/ SelectReturn
    /\ UNCHANGED typedVars

\* What fn returns to WithRetryTyped at invocation k, and the draw after it:
\* those of WithRetry's invocation k, if it made one.
TypedFn(k) ==
    IF k <= Len(trace) THEN {trace[k]}
    ELSE [err : TypedOutcomes, r : 0..(JitterSteps - 1)]

\* The case through which the k-th select of WithRetryTyped returns: that of
\* the k-th select of WithRetry.
TypedSelect(k) ==
    IF k < waits THEN {"timer"}
    ELSE IF k = waits THEN {woken}
    ELSE {"ctx", "timer"}

\* lines 130-148: one iteration, up to the return or to the select
TypedAttempt(v) ==
    /\ pc = "returned"
    /\ typed.pc = "loop"
    /\ LoopCondition(typed.attempt, typed.policy)
    /\ \E out \in TypedFn(typed.calls + 1) :
        LET t == [typed EXCEPT !.calls = @ + 1, !.result = v]
        IN  IF out.err = Nil
            THEN typed' = [t EXCEPT !.pc = "returned", !.value = v, !.err = Nil]
            ELSE IF ~IsRetryable(typed.policy, out.err)
            THEN typed' = [t EXCEPT !.pc = "returned", !.lastErr = out.err,
                                    !.value = ReturnedWithError(v),
                                    !.err = out.err]
            ELSE IF typed.attempt = typed.policy.MaxRetries
            THEN typed' = [t EXCEPT !.pc = "returned", !.lastErr = out.err,
                                    !.value = ReturnedWithError(v),
                                    !.err = MaxRetriesExceeded(out.err)]
            ELSE typed' = [t EXCEPT !.pc = "select", !.lastErr = out.err,
                                    !.waits = @ + 1,
                                    !.backoff = CalculateBackoff(typed.policy,
                                                    typed.attempt + 1, out.r)]
    /\ UNCHANGED <<retryVars, policyArg, trace>>

\* line 132 false, then line 157
TypedLoopExit ==
    /\ pc = "returned"
    /\ typed.pc = "loop"
    /\ ~LoopCondition(typed.attempt, typed.policy)
    /\ typed' = [typed EXCEPT !.pc = "returned",
                              !.value = ReturnedWithError(typed.result),
                              !.err = MaxRetriesExceeded(typed.lastErr)]
    /\ UNCHANGED <<retryVars, policyArg, trace>>

\* lines 149-154
TypedSelectReturn ==
    /\ pc = "returned"
    /\ typed.pc = "select"
    /\ \E case \in TypedSelect(typed.waits) :
        IF case = "ctx"
        THEN typed' = [typed EXCEPT !.pc = "returned",
                                   !.value = ReturnedWithError(typed.result),
                                   !.err = RetryCancelled(ctxErr)]
        ELSE typed' = [typed EXCEPT !.pc = "loop", !.attempt = @ + 1]
    /\ UNCHANGED <<retryVars, policyArg, trace>>

TypedNext ==
    \/ \E err \in TypedOutcomes : UntypedAttempt(err) /\ Rest({"retry", "typed"})
    \/ UntypedStep /\ Rest({"retry", "typed"})
    \/ \E v \in TypedValues : TypedAttempt(v) /\ Rest({"retry", "typed"})
    \/ TypedLoopExit /\ Rest({"retry", "typed"})
    \/ TypedSelectReturn /\ Rest({"retry", "typed"})

SpecTyped == TypedInit /\ [][TypedNext]_vars

\* ------------------------------------------------- Manager.RotateAPIKey

\* An auth.Manager over an InMemoryStore. credStore and rotationHandlers are
\* the two maps, functions on the provider ids that have an entry. The
\* handler registered for a provider is ChainRotationHandlers of some
\* handlers, kept as their number; a handler succeeds or fails and leaves
\* the credentials it is handed as they are. A Metadata map is kept as one
\* value. SetCredentials and RotateAPIKey are called one after another.
MaxCredSets == 2
MaxRotations == 2
MaxChained == 2

ProviderIDs == {"stripe", "plaid"}

\* part_002 lines 15-19
CredentialTypeAPIKey == "api_key"
CredentialTypeOAuth == "oauth"

GeneratedKeys == {"key_1", "key_2"}

\* The credentials that SetCredentials is given.
GivenCredentials ==
    [Type : {CredentialTypeAPIKey, CredentialTypeOAuth},
     APIKey : {"key_0"},
     Metadata : {"env=test", "env=live"}]

\* part_002 line 58, line 135, line 169 and the error of a handler
ErrCredentialsNotFound == <<"credentials not found">>
ErrNotAPIKey == <<"can only rotate API key credentials">>
ErrRand == <<"rand.Read failed">>
ErrRotation == <<"rotation handler failed">>

\* part_002 lines 167-173: generateAPIKey returns a key or the error of
\* rand.Read
GenerateAPIKey ==
    {[key |-> k, err |-> Nil] : k \in GeneratedKeys} \cup {[key |-> "", err |-> ErrRand]}

NoCredentials == [Type |-> "", APIKey |-> "", Metadata |-> ""]

\* No RotateAPIKey call was made. Of a call are kept: the provider, the
\* store as it was at the call, the credentials read and made, the number
\* of chained handlers read (0 when none is registered), the next of them
\* to call, the calls of handlers made with what they were handed and what
\* the store held for the provider then, and what the call returned.
NoRotation ==
    [pc |-> "idle", providerID |-> "", before |-> << >>,
     oldCreds |-> NoCredentials, newCreds |-> NoCredentials,
     chained |-> 0, next |-> 0, handled |-> << >>, result |-> Nil]

\* part_002 lines 92-98 and 46-50: NewManager(NewInMemoryStore())
NewManager ==
    /\ credStore = << >>
    /\ rotationHandlers = << >>
    /\ rotation = NoRotation
    /\ credSets = 0
    /\ rotations = 0
    /\ Unused({"rotate"})

\* m[k] = v of a Go map
MapSet(m, k, v) == [x \in DOMAIN m \cup {k} |-> IF x = k THEN v ELSE m[x]]

\* part_002 lines 116-118 and 64-70: SetCredentials(ctx, providerID, creds)
SetCredentials(providerID, creds) ==
    /\ rotation.pc \in {"idle", "returned"}
    /\ credSets < MaxCredSets
    /\ credSets' = credSets + 1
    /\ credStore' = MapSet(credStore, providerID, creds)
    /\ UNCHANGED <<rotationHandlers, rotation, rotations>>

\* part_002 lines 121-125: RegisterRotationHandler(providerID, handler) with
\* handler the chain of n handlers (part_001 lines 131-139)
RegisterRotationHandler(providerID, n) ==
    /\ providerID \notin DOMAIN rotationHandlers
    /\ rotationHandlers' = MapSet(rotationHandlers, providerID, n)
    /\ UNCHANGED <<credStore, rotation, credSets, rotations>>

\* part_002 lines 145-149
RotatedCredentials_NoMetadata(oldCreds, newKey) ==
    [Type |-> CredentialTypeAPIKey, APIKey |-> newKey, Metadata |-> ""]

RotatedCredentials(oldCreds, newKey) ==
    [Type |-> CredentialTypeAPIKey, APIKey |-> newKey, Metadata |-> oldCreds.Metadata]

\* part_002 lines 128-154: RotateAPIKey(ctx, providerID) up to the call of
\* the handler, to the Set when none is registered, or to the return of an
\* error
RotateAPIKey(providerID, gen) ==
    /\ rotation.pc \in {"idle", "returned"}
    /\ rotations < MaxRotations
    /\ rotations' = rotations + 1
    /\ LET call == [NoRotation EXCEPT !.providerID = providerID, !.before = credStore]
           Return(err) == [call EXCEPT !.pc = "returned", !.result = err]
       IN  rotation' =
             IF providerID \notin DOMAIN credStore THEN Return(ErrCredentialsNotFound)
             ELSE IF credStore[providerID].Type # CredentialTypeAPIKey
                  THEN [Return(ErrNotAPIKey) EXCEPT !.oldCreds = credStore[providerID]]
             ELSE IF gen.err # Nil
                  THEN [Return(gen.err) EXCEPT !.oldCreds = credStore[providerID]]
             ELSE [call EXCEPT
                     !.oldCreds = credStore[providerID],
                     !.newCreds = RotatedCredentials(credStore[providerID], gen.key),
                     !.chained = IF providerID \in DOMAIN rotationHandlers
                                 THEN rotationHandlers[providerID] ELSE 0,
                     !.next = 1,
                     !.pc = IF providerID \in DOMAIN rotationHandlers THEN "handler"
                            ELSE "set"]
    /\ UNCHANGED <<credStore, rotationHandlers, credSets>>

\* part_002 lines 155-157 and part_001 lines 132-138: the next handler of
\* the chain is called and returns err
RunRotationHandler(err) ==
    /\ rotation.pc = "handler"
    /\ rotation' = [rotation EXCEPT
            !.handled = Append(@, [handler |-> rotation.next,
                                   oldCreds |-> rotation.oldCreds,
                                   newCreds |-> rotation.newCreds,
                                   stored |-> credStore[rotation.providerID]]),
            !.next = @ + 1,
            !.result = err,
            !.pc = IF err # Nil THEN "returned"
                   ELSE IF rotation.next = rotation.chained THEN "set" ELSE "handler"]
    /\ UNCHANGED <<credStore, rotationHandlers, credSets, rotations>>

\* part_002 line 161 and lines 64-70: the new credentials are stored
StoreNewCredentials ==
    /\ rotation.pc = "set"
    /\ credStore' = MapSet(credStore, rotation.providerID, rotation.newCreds)
    /\ rotation' = [rotation EXCEPT !.pc = "returned", !.result = Nil]
    /\ UNCHANGED <<rotationHandlers, credSets, rotations>>

RotateNext ==
    \/ \E p \in ProviderIDs : \E c \in GivenCredentials :
            SetCredentials(p, c) /\ Rest({"rotate"})
    \/ \E p \in ProviderIDs : \E n \in 1..MaxChained :
            RegisterRotationHandler(p, n) /\ Rest({"rotate"})
    \/ \E p \in ProviderIDs : \E gen \in GenerateAPIKey :
            RotateAPIKey(p, gen) /\ Rest({"rotate"})
    \/ \E err \in {Nil, ErrRotation} : RunRotationHandler(err) /\ Rest({"rotate"})
    \/ StoreNewCredentials /\ Rest({"rotate"})

SpecRotate == NewManager /\ [][RotateNext]_vars

\* ------------------------------------------------------------ AsyncRouter

\* An AsyncRouter with maxWorkers workers. Each caller is a goroutine that
\* calls Route once; one goroutine calls Stop, once. Router.Route returns
\* nil or the error of a handler. A send on the closed queue panics, which
\* ends the process.
MaxWorkers == 1
NumRouteCallers == 4

RouteCallers == 1..NumRouteCallers

\* router.go line 77
QueueCap == maxWorkers * 2

\* A caller that has not called Route. Of a call are kept: whether it was
\* made before Stop was called, the done channel of its job (router.go
\* line 105: a buffer of one) and whether it is closed, the results that
\* Router.Route returned for the job, and what the call returned.
NotRouting ==
    [pc |-> "idle", beforeStop |-> FALSE, done |-> << >>, doneClosed |-> FALSE,
     routed |-> << >>, result |-> Nil]

NotWorking == [pc |-> "receive", job |-> 0]

Panicked == \E c \in DOMAIN routeCall : routeCall[c].pc = "panicked"

\* router.go lines 73-87: NewAsyncRouter(router, maxWorkers)
NewAsyncRouter ==
    /\ maxWorkers \in 1..MaxWorkers
    /\ queue = << >>
    /\ queueClosed = FALSE
    /\ routeCall = [c \in RouteCallers |-> NotRouting]
    /\ worker = [w \in 1..maxWorkers |-> NotWorking]
    /\ stopPc = "idle"
    /\ Unused({"async"})

\* router.go lines 101-108: Route(ctx, event) up to the send of the job,
\* which panics when the queue is closed and blocks while it is full
AsyncRoute(c) ==
    /\ ~Panicked
    /\ routeCall[c].pc = "idle"
    /\ LET call == [NotRouting EXCEPT !.beforeStop = (stopPc = "idle")]
       IN  IF queueClosed
           THEN /\ routeCall' = [routeCall EXCEPT ![c] = [call EXCEPT !.pc = "panicked"]]
                /\ UNCHANGED queue
           ELSE IF Len(queue) < QueueCap
           THEN /\ routeCall' = [routeCall EXCEPT ![c] = [call EXCEPT !.pc = "waiting"]]
                /\ queue' = Append(queue, c)
           ELSE /\ routeCall' = [routeCall EXCEPT ![c] = [call EXCEPT !.pc = "sending"]]
                /\ UNCHANGED queue
    /\ UNCHANGED <<maxWorkers, queueClosed, worker, stopPc>>

\* router.go line 108: the blocked send goes on when the queue has room,
\* and panics when the queue was closed meanwhile
BlockedSend(c) ==
    /\ ~Panicked
    /\ routeCall[c].pc = "sending"
    /\ IF queueClosed
       THEN /\ routeCall' = [routeCall EXCEPT ![c].pc = "panicked"]
            /\ UNCHANGED queue
       ELSE /\ Len(queue) < QueueCap
            /\ routeCall' = [routeCall EXCEPT ![c].pc = "waiting"]
            /\ queue' = Append(queue, c)
    /\ UNCHANGED <<maxWorkers, queueClosed, worker, stopPc>>

\* router.go line 93: the worker takes the next job, or leaves the loop
\* (and line 91: wg.Done) when the queue is closed and empty
WorkerReceive(w) ==
    /\ ~Panicked
    /\ worker[w].pc = "receive"
    /\ IF queue # << >>
       THEN /\ worker' = [worker EXCEPT ![w] = [pc |-> "route", job |-> Head(queue)]]
            /\ queue' = Tail(queue)
       ELSE /\ queueClosed
            /\ worker' = [worker EXCEPT ![w] = [pc |-> "exited", job |-> 0]]
            /\ UNCHANGED queue
    /\ UNCHANGED <<maxWorkers, queueClosed, routeCall, stopPc>>

\* router.go lines 94-96: Router.Route returns err, which the worker sends
\* on the job's done channel when its buffer has room, and closes it
WorkerRoute(w, err) ==
    /\ ~Panicked
    /\ worker[w].pc = "route"
    /\ LET c == worker[w].job
       IN  /\ Len(routeCall[c].done) < 1
           /\ routeCall' = [routeCall EXCEPT ![c].done = Append(@, err),
                                              ![c].doneClosed = TRUE,
                                              ![c].routed = Append(@, err)]
    /\ worker' = [worker EXCEPT ![w] = NotWorking]
    /\ UNCHANGED <<maxWorkers, queue, queueClosed, stopPc>>

\* router.go line 109: return <-job.done
RouteReturn(c) ==
    /\ ~Panicked
    /\ routeCall[c].pc = "waiting"
    /\ routeCall[c].done # << >>
    /\ routeCall' = [routeCall EXCEPT ![c].pc = "returned",
                                       ![c].result = Head(routeCall[c].done),
                                       ![c].done = Tail(@)]
    /\ UNCHANGED <<maxWorkers, queue, queueClosed, worker, stopPc>>

\* router.go line 114: Stop closes the queue
StopClose ==
    /\ ~Panicked
    /\ stopPc = "idle"
    /\ queueClosed' = TRUE
    /\ stopPc' = "wait"
    /\ UNCHANGED <<maxWorkers, queue, routeCall, worker>>

\* router.go line 115: wg.Wait() returns when every worker has left
StopReturn ==
    /\ ~Panicked
    /\ stopPc = "wait"
    /\ \A w \in DOMAIN worker : worker[w].pc = "exited"
    /\ stopPc' = "returned"
    /\ UNCHANGED <<maxWorkers, queue, queueClosed, routeCall, worker>>

\* The steps that go on by themselves: the workers, the blocked sends, the
\* receive of a result that is there, the return of Stop.
AsyncRuns ==
    \/ \E c \in RouteCallers : BlockedSend(c) /\ Rest({"async"})
    \/ \E w \in DOMAIN worker : WorkerReceive(w) /\ Rest({"async"})
    \/ \E w \in DOMAIN worker : \E err \in {Nil, ErrHandler} :
            WorkerRoute(w, err) /\ Rest({"async"})
    \/ \E c \in RouteCallers : RouteReturn(c) /\ Rest({"async"})
    \/ StopReturn /\ Rest({"async"})

AsyncNext ==
    \/ \E c \in RouteCallers : AsyncRoute(c) /\ Rest({"async"})
    \/ StopClose /\ Rest({"async"})
    \/ AsyncRuns

SpecAsync == NewAsyncRouter /\ [][AsyncNext]_vars /\ WF_vars(AsyncRuns)

\* ------------------------------------------------------ claims: WithRetry

\* C1: WithRetry with MaxRetries = n >= 0, on an operation that fails with a
\* retryable error every time and under a context that is never cancelled,
\* has invoked the operation exactly n+1 times when it returns; with n = 0
\* that is one invocation and no wait.
C1_AttemptsAreMaxRetriesPlusOne ==
    (pc = "returned" /\ policy.MaxRetries >= 0 /\ allRetryable /\ ctxErr = Nil)
        => /\ calls = policy.MaxRetries + 1
           /\ waits = policy.MaxRetries
           /\ (policy.MaxRetries = 0 => (calls = 1 /\ waits = 0))

C1_Witness ==
    /\ pc = "returned" /\ allRetryable /\ ctxErr = Nil
    /\ policy.MaxRetries = MaxRetriesBound
    /\ calls = MaxRetriesBound + 1

\* C2: once an attempt fails with an error that a configured retryable set
\* does not match, WithRetry has returned that very error, with no wait and
\* no attempt after it, whatever MaxRetries is; with no retryable set
\* configured no failure is returned bare: every one is retried or reported
\* as "max retries exceeded" or "retry cancelled".
C2_NonRetryableReturnsAtOnce ==
    /\ FailsNonRetryably(policy, lastOutcome)
            => /\ pc = "returned"
               /\ result = lastOutcome
               /\ waits = calls - 1
               /\ attempt = calls - 1
    /\ (policy.RetryableErrors = {} /\ pc = "returned" /\ result # Nil)
            => result \in {MaxRetriesExceeded(lastOutcome), RetryCancelled(ctxErr)}

C2_Witness ==
    /\ pc = "returned"
    /\ result = ErrNetworkError
    /\ policy.RetryableErrors = {ErrTimeout}
    /\ policy.MaxRetries = MaxRetriesBound
    /\ calls = 2

\* C3: after the context is cancelled while WithRetry is blocked in the
\* select of a backoff wait, the operation is not invoked again, the select
\* leaves through the Done case and not through the timer, WithRetry returns
\* "retry cancelled" wrapping ctx.Err(), and it does return.
C3_CancelledInWait == cancelCalls # -1

C3_CancelDuringBackoff ==
    /\ [](C3_CancelledInWait =>
            /\ calls = cancelCalls
            /\ woken = "ctx"
            /\ ctxErr # Nil
            /\ pc \in {"select", "returned"}
            /\ pc = "returned" =>
                    /\ result = Wrap("retry cancelled", ctxErr)
                    /\ ErrorsIs(result, ctxErr))
    /\ (C3_CancelledInWait ~> pc = "returned")

C3_Witness ==
    /\ C3_CancelledInWait
    /\ pc = "returned"
    /\ backoff > 0
    /\ calls = 2
    /\ policy.MaxRetries = MaxRetriesBound

\* C4: when all MaxRetries+1 attempts have failed with retryable errors,
\* WithRetry returns "max retries exceeded" wrapping the error of the last
\* attempt, never nil.
C4_ExceededWrapsLastError ==
    (/\ pc = "returned" /\ policy.MaxRetries >= 0 /\ allRetryable
     /\ calls = policy.MaxRetries + 1)
        => /\ result = Wrap("max retries exceeded", lastOutcome)
           /\ ErrorsIs(result, lastOutcome)
           /\ result # Nil

C4_Witness ==
    /\ pc = "returned" /\ allRetryable
    /\ policy.MaxRetries = 2 /\ calls = 3
    /\ policy.RetryableErrors = {ErrTimeout}
    /\ result = Wrap("max retries exceeded", ErrWrappedTimeout)

\* C29: a wait of WithRetry starts only in the step of an attempt (an
\* invocation of fn), so that as many attempts as waits have been made when
\* it starts: one before the first wait, none of the waits before the first
\* attempt; it never starts after the last of the MaxRetries + 1 attempts,
\* and while WithRetry is not in a wait the attempts are one more than the
\* waits, or as many when it is about to make the next attempt or was
\* cancelled in the wait. The timer of the wait after attempt i is set to
\* CalculateBackoff(i), and nothing but that timer or the context ends the
\* wait: with InitialInterval 10ms, Multiplier 2, no jitter and MaxRetries 2
\* the waits are 10ms, then 20ms, and there is no third.
C29_WaitsBetweenAttempts ==
    /\ [](/\ waits <= calls /\ calls <= waits + 1
          /\ pc = "select" => (waits = calls /\ calls <= policy.MaxRetries)
          /\ pc = "loop" => waits = calls
          /\ (pc = "returned" /\ waits = calls) =>
                (calls = 0 \/ result = RetryCancelled(ctxErr)))
    /\ [][waits' # waits =>
            /\ pc = "loop" /\ pc' = "select"
            /\ calls' = calls + 1 /\ waits' = calls'
            /\ \E r \in 0..(JitterSteps - 1) :
                    backoff' = CalculateBackoff(policy, calls', r)
            /\ (policy.InitialInterval = 10 /\ policy.Multiplier = 2
                    /\ ~policy.RandomizeJitter /\ policy.MaxInterval >= 20) =>
                        /\ waits' = 1 => backoff' = 10
                        /\ waits' = 2 => backoff' = 20
                        /\ policy.MaxRetries = 2 => waits' <= 2]_vars
    /\ [][(pc = "select" /\ pc' # "select") =>
            /\ woken \in {"timer", "ctx"}
            /\ woken = "ctx" => ctxErr # Nil
            /\ UNCHANGED <<calls, waits, backoff>>]_vars

\* The second wait of the scenario: 20ms after two attempts.
C29_Witness ==
    /\ policy.InitialInterval = 10 /\ policy.Multiplier = 2
    /\ ~policy.RandomizeJitter /\ policy.MaxRetries = 2
    /\ pc = "select" /\ waits = 2 /\ calls = 2 /\ backoff = 20

\* C31: whatever the operation returns at each attempt, WithRetry with
\* MaxRetries >= 0 returns. It has then invoked the operation at most
\* MaxRetries + 1 times and waited at most MaxRetries times; an attempt that
\* succeeds makes it return nil, in the same step, and the operation is not
\* invoked after it.
C31_Terminates ==
    /\ <>(pc = "returned")
    /\ [](policy.MaxRetries >= 0 =>
            /\ calls <= policy.MaxRetries + 1
            /\ waits <= policy.MaxRetries
            /\ (calls > 0 /\ lastOutcome = Nil) =>
                    (pc = "returned" /\ result = Nil))
    /\ [][pc = "returned" => UNCHANGED <<calls, waits, result>>]_vars

\* A success at the second of MaxRetriesBound + 1 attempts.
C31_Witness ==
    /\ policy.MaxRetries = MaxRetriesBound
    /\ pc = "returned" /\ result = Nil
    /\ calls = 2 /\ waits = 1

\* ------------------------------------------------ claims: circuit breaker

\* The steps the claims speak of: an Execute call arrives; it returns the
\* error e without having invoked fn; it invokes fn as a probe; the fn of
\* caller c returns an error.
ExecuteArrives == execs' = execs + 1
ExecuteRejectedWith(e) ==
    /\ \E c \in Callers : ~running[c] /\ returned' = [returned EXCEPT ![c] = e]
    /\ running' = running
ExecuteAdmitsProbe ==
    \E c \in Callers : ~running[c] /\ running'[c] /\ probe'[c]
FnFails(c) == running[c] /\ ~running'[c] /\ returned'[c] = FnFailed

\* C5 as stated: a breaker with FailureThreshold = k >= 1 is Closed only
\* while fewer than k failed calls have completed in a row (a successful
\* call restarting the run): the k-th consecutive failed call opens it.
C5_Original_OpensAtKthFailedCall ==
    breaker.state = StateClosed => failRun < config.FailureThreshold

\* C5 as amended: a breaker with FailureThreshold = k >= 1 is Closed while
\* fewer than k failed calls in a row were counted in its current generation
\* and becomes Open exactly when the k-th of them completes. The run is
\* restarted by a success and by every new generation (a new statistical
\* window included), and a call admitted in an earlier generation is not
\* counted.
C5_OpensAtKthCountedFailure ==
    /\ [](breaker.state = StateClosed => failRunGen < config.FailureThreshold)
    /\ [][(breaker.state = StateClosed /\ breaker'.state # StateClosed)
            => /\ breaker'.state = StateOpen
               /\ failRunGen' = config.FailureThreshold
               /\ \E c \in Callers : FnFails(c)]_vars

C5_Witness ==
    /\ config.FailureThreshold = 2 /\ config.Interval > 0
    /\ breaker.state = StateOpen
    /\ changedAt = now
    /\ failRunGen = 2
    /\ execs = 4

\* C6: an Execute arriving while the breaker is Open, less than the open
\* timeout after it opened, returns the open-circuit error, does not invoke
\* the wrapped function and leaves the counts and the state as they are.
C6_OpenRejectsWithoutInvoking ==
    [][(/\ ExecuteArrives
        /\ breaker.state = StateOpen
        /\ now - changedAt < config.Timeout)
            => /\ ExecuteRejectedWith(ErrOpenState)
               /\ breaker'.counts = breaker.counts
               /\ breaker'.state = StateOpen]_vars

C6_Witness ==
    /\ breaker.state = StateOpen
    /\ now - changedAt = 1 /\ now - changedAt < config.Timeout
    /\ config.FailureThreshold = 2
    /\ execs = 3
    /\ \E c \in Callers : returned[c] = ErrOpenState

\* C7 as stated: the breaker leaves Open only in the step of an arriving
\* Execute, made once the open timeout has elapsed, whose request is
\* admitted as a probe.
C7_Original_OnlyExecuteLeavesOpen ==
    [][(breaker.state = StateOpen /\ breaker'.state # StateOpen)
            => /\ ExecuteArrives
               /\ now - changedAt >= config.Timeout
               /\ ExecuteAdmitsProbe]_vars

\* C7 as amended: the breaker leaves Open only for HalfOpen, only inside a
\* breaker operation that evaluates the current state (an arriving Execute,
\* the completion of an earlier Execute, a State or GetStats read) made
\* more than the open timeout after it opened, never by the passing of time
\* alone and never by Counts; when the operation is an arriving Execute,
\* its request is admitted as a probe.
C7_LazyHalfOpen ==
    [][(breaker.state = StateOpen /\ breaker'.state # StateOpen)
            => /\ breaker'.state = StateHalfOpen
               /\ now' = now
               /\ now - changedAt > config.Timeout
               /\ ExecuteArrives => (ExecuteAdmitsProbe /\ probes' = 1)]_vars

C7_Witness ==
    /\ breaker.state = StateHalfOpen
    /\ changedAt = now
    /\ probes = 1
    /\ execs = config.FailureThreshold + 1
    /\ \E c \in Callers : running[c] /\ probe[c]

\* C8 as stated: a probe that fails while the breaker is HalfOpen moves it
\* to Open with all counts zero and the open timeout restarted at that
\* moment.
C8_Original_AnyFailedProbeOpens ==
    [][\A c \in Callers :
        (breaker.state = StateHalfOpen /\ probe[c] /\ FnFails(c))
            => /\ breaker'.state = StateOpen
               /\ breaker'.counts = ZeroCounts
               /\ changedAt' = now
               /\ breaker'.expiry = now + config.Timeout]_vars

\* C8 as amended: a failing probe that was admitted in the current HalfOpen
\* period moves the breaker to Open with all counts zero and the open
\* timeout restarted at that moment, however many probes succeeded before;
\* the failure of a probe admitted in an earlier HalfOpen period is ignored.
C8_FailedProbeOfThePeriodOpens ==
    [][\A c \in Callers :
        (breaker.state = StateHalfOpen /\ probe[c] /\ FnFails(c))
            => IF before[c] = breaker.generation
               THEN /\ breaker'.state = StateOpen
                    /\ breaker'.counts = ZeroCounts
                    /\ changedAt' = now
                    /\ breaker'.expiry = now + config.Timeout
               ELSE breaker' = breaker]_vars

C8_Witness ==
    /\ breaker.state = StateOpen
    /\ changedAt = now
    /\ breaker.generation = 4
    /\ config.Interval = 0 /\ config.FailureThreshold = 1 /\ config.MaxRequests = 2
    /\ execs = 3
    /\ \E c, d \in Callers :
        /\ ~running[c] /\ returned[c] = FnFailed
        /\ ~running[d] /\ returned[d] = FnSucceeded

\* C9 as stated: in HalfOpen the breaker closes as soon as SuccessThreshold
\* probes have succeeded in a row, so it is never HalfOpen with that many.
C9_ClosesAtSuccessThreshold ==
    breaker.state = StateHalfOpen => succRun < config.SuccessThreshold

\* C10 as stated: while HalfOpen, at most MaxRequests probes are admitted.
C10_Original_AtMostMaxRequestsProbes ==
    breaker.state = StateHalfOpen => probes <= config.MaxRequests

\* C10 as amended: while HalfOpen, under any interleaving of the callers, at
\* most max(MaxRequests, 1) probes are admitted, and every Execute arriving
\* after that many, while the breaker is still HalfOpen, is rejected with
\* the too-many-requests error without invoking the wrapped function.
C10_Cap == IF config.MaxRequests = 0 THEN 1 ELSE config.MaxRequests

C10_AtMostMaxRequestsOrOneProbe ==
    /\ [](breaker.state = StateHalfOpen => probes <= C10_Cap)
    /\ [][(ExecuteArrives /\ breaker.state = StateHalfOpen /\ probes >= C10_Cap)
            => /\ ExecuteRejectedWith(ErrTooManyRequests)
               /\ breaker' = breaker]_vars

C10_Witness ==
    /\ config.MaxRequests = 2
    /\ breaker.state = StateHalfOpen
    /\ probes = 2
    /\ \E c, d \in Callers :
        /\ returned[c] = ErrTooManyRequests /\ ~running[c]
        /\ running[d] /\ probe[d]

\* The counts of a generation that has just begun: all zero, or those of the
\* one request that the step which began it admitted.
C30_Fresh(c) == c = ZeroCounts \/ (c = CountsOnRequest(ZeroCounts) /\ ExecuteArrives)

C21_OnStateChangeOnceAndNotBlocking ==
    /\ [][IF breaker'.state # breaker.state
          THEN notified' = Append(notified, [name |-> BreakerName,
                                             from |-> breaker.state,
                                             to |-> breaker'.state])
          ELSE notified' = notified]_vars
    /\ [](callback # << >> => (cbMutex = 0 /\ blocked = {}))

\* C22: the reads and writes of a CircuitBreaker are serialized through its
\* lock: no Execute, State or Counts reads the breaker while a Reset holds
\* the lock to replace it.
C22_SerializedThroughOneLock ==
    \A c \in Callers : ~racy[c]

\* -------------------------------------------- claims: ExecuteWithFallback

Rejections == {ErrOpenState, ErrTooManyRequests}

\* C11 as stated: a returned ExecuteWithFallback invoked the fallback, and
\* returned its result, if and only if the breaker rejected the call and a
\* fallback was given; when the wrapped function ran and failed, the
\* fallback was not invoked, the failure was counted by the breaker and the
\* error of the function was returned.
C11_Original_FallbackIffRejected ==
    \A c \in DOMAIN outcome : outcome[c].by # "nobody" =>
        /\ outcome[c].by = "fallback" <=> (returned[c] \in Rejections /\ fbGiven[c])
        /\ returned[c] = FnFailed =>
                /\ outcome[c].by = "primary"
                /\ outcome[c].err = outcome[c].fnErr
                /\ outcome[c].counted

\* C11 as amended: a returned ExecuteWithFallback invoked the fallback, and
\* returned its result, if and only if a fallback was given and the error
\* of Execute is or wraps the open-circuit or the too-many-requests error:
\* the breaker rejected the call, or the wrapped function ran and returned
\* such an error itself. When the wrapped function ran and failed with
\* another error, the fallback was not invoked and the function's error was
\* returned. A failure of the wrapped function went into the breaker's
\* tally whenever the generation the call was admitted in was still current.
C11_WrapsRejection(err) ==
    \E i \in 1..Len(err) : err[i] \in Rejections

C11_FallbackIffRejectionError ==
    \A c \in DOMAIN outcome : outcome[c].by # "nobody" =>
        /\ outcome[c].by = "fallback" <=>
                /\ fbGiven[c]
                /\ \/ returned[c] \in Rejections
                   \/ returned[c] = FnFailed /\ C11_WrapsRejection(outcome[c].fnErr)
        /\ outcome[c].by = "fallback" => outcome[c].err \in FallbackOutcomes
        /\ returned[c] \in Rejections => outcome[c].fnErr = Nil /\ ~outcome[c].counted
        /\ (returned[c] = FnFailed /\ ~C11_WrapsRejection(outcome[c].fnErr)) =>
                /\ outcome[c].by = "primary"
                /\ outcome[c].err = outcome[c].fnErr
                /\ outcome[c].err # Nil
        /\ (returned[c] = FnFailed /\ outcome[c].current) => outcome[c].counted
        /\ (outcome[c].by = "primary" /\ returned[c] \in Rejections) =>
                ~fbGiven[c] /\ outcome[c].err = <<returned[c]>>

C11_Witness ==
    \E c, d \in DOMAIN outcome :
        /\ returned[c] = ErrTooManyRequests /\ fbGiven[c]
        /\ outcome[c].by = "fallback" /\ outcome[c].err = ErrFallback
        /\ returned[d] = FnFailed /\ fbGiven[d]
        /\ outcome[d].by = "primary" /\ outcome[d].err = ErrNetworkError
        /\ outcome[d].counted

\* ------------------------------------------------------ claims: Reset

\* C20 as stated: from the return of a Reset until a call admitted after it
\* completes, the breaker is Closed with all counts zero.
C20_Original_ZeroUntilCompletion ==
    sinceReset \in {"clean", "admitted"} =>
        /\ breaker.state = StateClosed
        /\ breaker.counts = ZeroCounts

\* C20 as amended: Reset leaves the breaker Closed with all counts zero from
\* any prior state; it stays Closed with all counts zero until a call is
\* admitted after the Reset, and Closed with no success and no failure
\* counted (only Requests rises, at each admission) until such a call
\* completes. The result of a call admitted before the Reset changes neither
\* the state nor the counts.
C20_NoTally(c) ==
    /\ c.TotalSuccesses = 0 /\ c.TotalFailures = 0
    /\ c.ConsecutiveSuccesses = 0 /\ c.ConsecutiveFailures = 0

C20_ResetClosesAndForgets ==
    /\ [](sinceReset = "clean" =>
            breaker.state = StateClosed /\ breaker.counts = ZeroCounts)
    /\ [](sinceReset = "admitted" =>
            /\ breaker.state = StateClosed
            /\ C20_NoTally(breaker.counts)
            /\ breaker.counts.Requests <= Cardinality({c \in Callers : running[c] /\ ~replaced[c]}))
    /\ [][\A c \in DOMAIN replaced :
            (replaced[c] /\ running[c] /\ ~running'[c]) =>
                /\ breaker'.state = breaker.state
                /\ breaker'.counts = breaker.counts]_vars

C20_Witness ==
    /\ sinceReset = "clean"
    /\ breaker.state = StateClosed /\ breaker.counts = ZeroCounts
    /\ changedAt = now /\ now = 4
    /\ config.FailureThreshold = 1
    /\ \E c, d \in Callers :
        /\ returned[c] = FnFailed /\ ~running[c]
        /\ running[d] /\ replaced[d] /\ probe[d]

\* ------------------------------------------ claims: CircuitBreakerManager

C14_MadeFor(n) == {i \in 1..Len(constructed) : constructed[i].name = n}

\* C14: under any interleaving of concurrent Get calls, at most one breaker
\* is constructed and registered per name; every Get for the name returns
\* that instance, which keeps the config of the call that made it whatever
\* config a later call passes; different names get different instances; a
\* registered breaker is never replaced.
C14_OneBreakerPerName ==
    /\ [](\A n \in DOMAIN breakers :
            /\ Cardinality(C14_MadeFor(n)) <= 1
            /\ Cardinality(handedOut[n]) <= 1
            /\ handedOut[n] \subseteq C14_MadeFor(n)
            /\ handedOut[n] \subseteq {breakers[n]}
            /\ Exists(breakers[n]) => C14_MadeFor(n) = {breakers[n]})
    /\ [](\A n1, n2 \in DOMAIN breakers :
            (n1 # n2 /\ Exists(breakers[n1])) => breakers[n1] # breakers[n2])
    /\ [][\A n \in DOMAIN breakers :
            Exists(breakers[n]) =>
                /\ breakers'[n] = breakers[n]
                /\ constructed'[breakers[n]] = constructed[breakers[n]]]_vars

C14_Witness ==
    \E g, h \in DOMAIN get :
        /\ g # h
        /\ get[g].pc = "unlock" /\ get[g].name = get[h].name
        /\ Len(constructed) = 1
        /\ constructed[1].name = get[g].name
        /\ constructed[1].config # get[g].config
        /\ get[g].breaker = 1
        /\ get[h].pc = "idle" /\ get[h].result = 1

\* ---------------------------------------------------- claims: RateLimiter

\* The Allow calls i..j of the log that returned true.
C16_Granted(i, j) == {k \in i..j : allowLog[k].ok}

\* C16: a RateLimiter of burst B and rate r (one token per Period) never
\* grants more than B Allow calls with no time elapsing, and never more than
\* B plus the refill of the time elapsed over any stretch of time; from the
\* full bucket of a new limiter the first B calls are granted; a call is
\* refused only when granting it would exceed that bound, so that after B
\* grants at one instant the next call is refused until one Period has
\* passed and granted from then on; the bucket never holds more than B
\* tokens, and Allow returns in the step it is called in.
C16_AllowWithinBurstAndRate ==
    /\ \A i, j \in 1..Len(allowLog) :
            (i <= j /\ allowLog[i].ok /\ allowLog[j].ok) =>
                (Cardinality(C16_Granted(i, j)) - rlConfig.Burst) * rlConfig.Period
                    <= allowLog[j].at - allowLog[i].at
    /\ \A i \in 1..Len(allowLog) : i <= rlConfig.Burst => allowLog[i].ok
    /\ \A j \in 1..Len(allowLog) :
            ~allowLog[j].ok =>
                \E i \in 1..(j - 1) :
                    /\ allowLog[i].ok
                    /\ (Cardinality(C16_Granted(i, j - 1)) + 1 - rlConfig.Burst) * rlConfig.Period
                            > allowLog[j].at - allowLog[i].at
    /\ limiter # << >> =>
            /\ limiter.tokens <= rlConfig.Burst * rlConfig.Period
            /\ limiter.tokens >= 0
    /\ Len(allowLog) < MaxAllows => ENABLED (Allow /\ Rest({"limiter"}))
    /\ (Len(allowLog) = 3 /\ rlConfig.Burst = 1 /\ rlConfig.Period = 1
            /\ allowLog[2].at = allowLog[1].at) =>
                /\ allowLog[1].ok
                /\ ~allowLog[2].ok
                /\ allowLog[3].ok <=> allowLog[3].at >= allowLog[1].at + 1

C16_Witness ==
    /\ rlConfig.Burst = 2 /\ rlConfig.Period = 2
    /\ Len(allowLog) = 4
    /\ allowLog[1].ok /\ allowLog[2].ok /\ ~allowLog[3].ok /\ allowLog[4].ok
    /\ allowLog[1].at = 1 /\ allowLog[2].at = 1 /\ allowLog[3].at = 2
    /\ allowLog[4].at = 3

\* ----------------------------------------------- claims: RateLimiter.Wait

\* When a token asked for now is due, and the tokens a limiter holds after
\* one is taken from it now.
C17_Due == ReserveN(rlConfig, limiter, clock, InfDuration).timeToAct

C17_Taken == Advance(rlConfig, limiter, clock) - rlConfig.Period

\* The steps in which caller w calls Wait, and in which its blocked Wait
\* returns.
C17_Calls(w) == waiting[w].pc = "idle" /\ waiting'[w].pc # "idle"

C17_Wakes(w) == waiting[w].pc = "sleeping" /\ waiting'[w].pc = "returned"

\* C17 as stated: Wait returns an error only when the context handed to the
\* limiter is done, that is when the caller cancelled it or when its
\* deadline, WaitTimeout after the call if WaitTimeout > 0, has elapsed.
C17_Original_ErrorOnlyWhenContextDone ==
    [][\A w \in DOMAIN waiting :
            (/\ C17_Calls(w) \/ C17_Wakes(w)
             /\ waiting'[w].pc = "returned"
             /\ waiting'[w].result # Nil) =>
                CtxDone(waiting'[w], clock)]_vars

\* C17: RateLimiter.Wait of a limiter of Burst >= 1 hands rate.Limiter.Wait
\* a context whose deadline is at most WaitTimeout after the call when
\* WaitTimeout > 0 and the caller's own otherwise. The call returns nil only
\* with a token taken from the bucket and not before that token is due. It
\* blocks only with a token reserved that is due later, and by the deadline
\* if there is one; blocked, it returns when the token is due or the context
\* is done and not before, with nil or the context's error, and the
\* cancelled reservation takes no token. When the token would be due after
\* the deadline, Wait does not block: it returns at once the error "would
\* exceed context deadline", which is not a context error, and takes no
\* token. With WaitTimeout = 0 and a context without deadline, Wait returns
\* nil or context.Canceled only.
C17_WaitTokenOrError ==
    /\ [](\A w \in DOMAIN waiting :
            waiting[w].pc = "sleeping" =>
                /\ waiting[w].deadline # NoDeadline =>
                        waiting[w].timeToAct <= waiting[w].deadline
                /\ ENABLED (WaitWake(w) /\ Rest({"limiter"})) <=>
                        (clock >= waiting[w].timeToAct \/ CtxDone(waiting[w], clock)))
    /\ [][\A w \in DOMAIN waiting :
            C17_Calls(w) =>
                LET c == waiting'[w]
                IN  /\ rlConfig.WaitTimeout > 0 =>
                            /\ c.deadline # NoDeadline
                            /\ c.deadline <= clock + rlConfig.WaitTimeout
                    /\ c.pc \in {"sleeping", "returned"}
                    /\ c.pc = "sleeping" =>
                            /\ c.timeToAct = C17_Due /\ C17_Due > clock
                            /\ limiter'.tokens = C17_Taken
                    /\ c.pc = "returned" =>
                            /\ c.result \in {Nil, ContextCanceled, ErrWouldExceed}
                            /\ c.result = Nil =>
                                    C17_Due = clock /\ limiter'.tokens = C17_Taken
                            /\ c.result = ContextCanceled =>
                                    c.cancelled /\ limiter' = limiter
                            /\ c.result = ErrWouldExceed =>
                                    /\ c.deadline # NoDeadline /\ C17_Due > c.deadline
                                    /\ ~c.cancelled
                                    /\ limiter' = limiter
                            /\ (rlConfig.WaitTimeout = 0 /\ c.deadline = NoDeadline) =>
                                    c.result \in {Nil, ContextCanceled}]_vars
    /\ [][\A w \in DOMAIN waiting :
            C17_Wakes(w) =>
                LET b == waiting[w]
                    c == waiting'[w]
                IN  /\ c.result \in {Nil, ContextCanceled, ContextDeadlineExceeded}
                    /\ c.result = Nil =>
                            clock >= b.timeToAct /\ limiter' = limiter
                    /\ c.result = ContextCanceled =>
                            b.cancelled /\ limiter'.tokens >= limiter.tokens
                    /\ c.result = ContextDeadlineExceeded =>
                            /\ b.deadline # NoDeadline /\ clock >= b.deadline
                            /\ limiter'.tokens >= limiter.tokens
                    /\ (rlConfig.WaitTimeout = 0 /\ b.deadline = NoDeadline) =>
                            c.result \in {Nil, ContextCanceled}]_vars

\* One caller's Wait has returned "would exceed context deadline" in the
\* step it was called in while another's is blocked on a reserved token.
C17_Witness ==
    \E w, v \in DOMAIN waiting :
        /\ rlConfig.WaitTimeout > 0
        /\ waiting[w].pc = "returned" /\ waiting[w].result = ErrWouldExceed
        /\ clock < waiting[w].deadline
        /\ waiting[v].pc = "sleeping" /\ clock < waiting[v].timeToAct

\* --------------------------------------------- claims: WaitOrError

\* C32: WaitOrError returns nil when a token is there or becomes available
\* within the WaitTimeout of the config, and ErrRateLimitExceeded only when
\* none does.
C32_NilWhenTokenWithinWaitTimeout ==
    [][(/\ Len(allowLog') = Len(allowLog) + 1
        /\ ReserveN(rlConfig, limiter, clock, rlConfig.WaitTimeout).ok)
            => allowLog'[Len(allowLog')].result = Nil]_vars

\* ------------------------------------------- claims: AdaptiveRateLimiter

\* The steps in which caller w calls Wait, and in which the select of its
\* backoff returns.
C18_Starts(w) == waiting[w].pc = "idle" /\ waiting'[w].pc # "idle"

C18_BackoffEnds(w) == waiting[w].pc = "backoff" /\ waiting'[w].pc # "backoff"

\* C18 as stated: a Wait that starts before t+d of an OnRateLimitError(d)
\* called at t (and not reset since) sleeps until t+d at least.
C18_Original_SleepsOutEveryBackoff ==
    [][\A w \in DOMAIN waiting :
            (C18_Starts(w) /\ clock < owed) =>
                /\ waiting'[w].pc = "backoff"
                /\ waiting'[w].backoff >= owed]_vars

\* C18: backoffUntil is t+d of the latest OnRateLimitError(d), called at t,
\* unless Reset cleared it since: a later call with a shorter d moves it
\* back. A Wait that starts before the backoffUntil then in force sleeps,
\* without asking the limiter, until that time or until its context is
\* done, whichever is first, whatever OnRateLimitError and Reset do
\* meanwhile; it asks the limiter, and may return nil, only from that time
\* on (as far as the clock of the model lets a token be reserved); when
\* the context is done by the end of the sleep it returns the context's
\* error and takes no token.
C18_SleepsOutBackoffInForce ==
    /\ [](owed > 0 => (backoffUntil > ZeroTime /\ backoffUntil <= owed))
    /\ [][backoffUntil' # backoffUntil =>
            \/ cleared' /\ backoffUntil' = ZeroTime
            \/ /\ \E d \in 1..MaxRetryAfter : backoffUntil' = clock + d
               /\ owed' >= backoffUntil' /\ owed' >= owed
               /\ ~cleared']_vars
    /\ [][\A w \in DOMAIN waiting :
            C18_Starts(w) =>
                IF clock < backoffUntil
                THEN /\ waiting'[w].pc = "backoff"
                     /\ waiting'[w].backoff = backoffUntil
                     /\ limiter' = limiter
                ELSE waiting'[w].pc \in {"sleeping", "returned"}]_vars
    /\ [](\A w \in DOMAIN waiting :
            waiting[w].pc = "backoff" =>
                /\ ENABLED (BackoffWake(w) /\ Rest({"limiter", "adaptive"})) =>
                        (clock >= waiting[w].backoff \/ CtxDone(waiting[w], clock))
                /\ CtxDone(waiting[w], clock) =>
                        ENABLED (BackoffWake(w) /\ Rest({"limiter", "adaptive"}))
                /\ (clock >= waiting[w].backoff /\ C17_Due <= MaxWaitClock) =>
                        ENABLED (BackoffWake(w) /\ Rest({"limiter", "adaptive"})))
    /\ [][\A w \in DOMAIN waiting :
            C18_BackoffEnds(w) =>
                LET b == waiting[w]
                    c == waiting'[w]
                IN  /\ c.pc \in {"sleeping", "returned"}
                    /\ (c.pc = "sleeping" \/ c.result = Nil \/ limiter' # limiter) =>
                            clock >= b.backoff /\ ~CtxDone(b, clock)
                    /\ CtxDone(b, clock) =>
                            /\ c.pc = "returned"
                            /\ c.result = CtxErr(b, clock) /\ c.result # Nil
                            /\ limiter' = limiter]_vars

\* A Wait sleeps out a backoff that ends before the one an earlier
\* OnRateLimitError asked for, and its context was cancelled meanwhile.
C18_Witness ==
    \E w \in DOMAIN waiting :
        /\ waiting[w].pc = "backoff"
        /\ clock < waiting[w].backoff /\ waiting[w].backoff < owed
        /\ waiting[w].cancelled

\* The steps of OnRateLimitError and Reset that C37 is about: those that
\* change backoffUntil.
C37_WindowChanges == backoffUntil' # backoffUntil

\* C37: Wait reads backoffUntil once, when it is called: the instant its
\* backoff sleep ends is the backoffUntil of that moment and stays so. An
\* OnRateLimitError or a Reset that changes backoffUntil while a Wait is in
\* progress changes neither where that Wait is nor the instant it sleeps
\* to: the sleep ends only at that instant (or when the context is done),
\* not before it after a Reset, and it can end at that instant although a
\* later OnRateLimitError has put backoffUntil ahead of the clock. An
\* OnRateLimitError(d) at t sets backoffUntil to t+d also when that is
\* before the backoffUntil in force.
C37_ReadsBackoffOnce ==
    /\ [][\A w \in DOMAIN waiting :
            (C18_Starts(w) /\ waiting'[w].pc = "backoff") =>
                waiting'[w].backoff = backoffUntil]_vars
    /\ [][\A w \in DOMAIN waiting :
            (waiting[w].pc = "backoff" /\ waiting'[w].pc = "backoff") =>
                waiting'[w].backoff = waiting[w].backoff]_vars
    /\ [][C37_WindowChanges =>
            \A w \in DOMAIN waiting :
                /\ waiting'[w].pc = waiting[w].pc
                /\ waiting'[w].backoff = waiting[w].backoff
                /\ waiting'[w].timeToAct = waiting[w].timeToAct
                /\ waiting'[w].result = waiting[w].result]_vars
    /\ [][\A w \in DOMAIN waiting :
            C18_BackoffEnds(w) =>
                (clock >= waiting[w].backoff \/ CtxDone(waiting[w], clock))]_vars
    /\ [](\A w \in DOMAIN waiting :
            (/\ waiting[w].pc = "backoff" /\ clock >= waiting[w].backoff
             /\ C17_Due <= MaxWaitClock) =>
                ENABLED (BackoffWake(w) /\ Rest({"limiter", "adaptive"})))
    /\ [](\A d \in 1..MaxRetryAfter :
            ENABLED (/\ OnRateLimitError(d) /\ Rest({"limiter", "adaptive"})
                     /\ backoffUntil' = clock + d))

\* The backoff sleep of a Wait is over while a later OnRateLimitError has
\* backoffUntil ahead of the clock, though before the end of an earlier,
\* longer window.
C37_Witness ==
    \E w \in DOMAIN waiting :
        /\ waiting[w].pc = "backoff"
        /\ clock >= waiting[w].backoff
        /\ clock < backoffUntil /\ backoffUntil < owed

\* The steps seen to be a Reset: the first after an OnRateLimitError, and
\* those that replace a limiter on which a Wait is blocked.
C19_Resets ==
    \/ cleared' /\ ~cleared
    \/ \E w \in DOMAIN waiting : waiting'[w].old /\ ~waiting[w].old

\* C19: Reset sets backoffUntil to the zero time and a.limiter to a new
\* limiter of the same config, whose bucket is full, whatever the backoff
\* and the bucket were; until the next OnRateLimitError no Wait that starts
\* sleeps out a backoff, and the first one whose context is not cancelled
\* returns nil at once with one token of the full bucket taken. A Wait that
\* was blocked on the replaced limiter gives nothing back to the new one.
C19_ResetClearsBackoffAndRefills ==
    /\ [](cleared => (backoffUntil = ZeroTime /\ owed = 0))
    /\ [][C19_Resets =>
            /\ limiter' = NewLimiter(rlConfig)
            /\ limiter'.tokens = rlConfig.Burst * rlConfig.Period
            /\ rlConfig' = rlConfig]_vars
    /\ [][\A w \in DOMAIN waiting :
            (C18_Starts(w) /\ cleared) =>
                /\ waiting'[w].pc # "backoff"
                /\ (limiter = NewLimiter(rlConfig) /\ ~waiting'[w].cancelled) =>
                        /\ waiting'[w].pc = "returned" /\ waiting'[w].result = Nil
                        /\ limiter'.tokens = (rlConfig.Burst - 1) * rlConfig.Period]_vars
    /\ [][\A w \in DOMAIN waiting :
            (waiting[w].old /\ waiting'[w].pc = "returned") => limiter' = limiter]_vars

\* Reset has replaced a limiter on which a Wait is blocked, after an
\* OnRateLimitError: the backoff is cleared and the bucket full.
C19_Witness ==
    \E w \in DOMAIN waiting :
        /\ cleared /\ backoffUntil = ZeroTime
        /\ waiting[w].pc = "sleeping" /\ waiting[w].old
        /\ clock < waiting[w].timeToAct
        /\ limiter = NewLimiter(rlConfig)

\* ------------------------------------------------ claims: Factory.Create

\* How often the call has invoked the registered provider.
C12_Invoked == Cardinality({k \in DOMAIN inCall.passed : inCall.passed[k] = "provider"})

\* C12: a call through a provider made by Create with all three layers,
\* whose registered provider fails every time, has by its return taken one
\* token of the limiter and had one failure recorded by the breaker for
\* each of the MaxRetries + 1 attempts (retry outermost, breaker
\* innermost).
C12_TokenAndFailurePerAttempt ==
    (/\ inCall.pc = "returned"
     /\ inCall.allFailed
     /\ C12_Invoked = wrapped[inCall.provider].policy.MaxRetries + 1) =>
        /\ inCall.tokens = C12_Invoked
        /\ inCall.recorded = C12_Invoked

\* C13: in a call through a provider made by Create the limiter's Wait
\* comes before the breaker's admission, and a call that the Open breaker
\* rejected has passed the limiter.
C13_LimiterBeforeBreaker ==
    /\ \A k \in DOMAIN inCall.passed :
            inCall.passed[k] = "breaker" =>
                \E j \in 1..(k - 1) : inCall.passed[j] = "limiter"
    /\ (inCall.pc = "returned" /\ inCall.err = Rejection(ErrOpenState)) =>
            inCall.tokens >= 1

\* C34: the breaker of a provider made by Create records a failure only of
\* a call in which the registered provider was invoked (and failed): the
\* error of the limiter's Wait is not recorded, and the breaker does not
\* open on it.
C34_LimiterErrorNotABreakerFailure ==
    [][\A i \in DOMAIN wrapped :
        (\/ wrapped'[i].breaker.counts.TotalFailures >
                wrapped[i].breaker.counts.TotalFailures
         \/ /\ wrapped[i].breaker.state = StateClosed
            /\ wrapped'[i].breaker.state = StateOpen)
            => C12_Invoked >= 1]_vars

\* C15: two providers that Create has made for one name have the same
\* breaker state and the same bucket at all times.
C15_SharedPerName ==
    \A i, j \in DOMAIN wrapped :
        wrapped[i].name = wrapped[j].name =>
            /\ wrapped[i].breaker = wrapped[j].breaker
            /\ wrapped[i].limiter = wrapped[j].limiter

\* ----------------------------------------------- claims: CalculateBackoff

\* min(InitialInterval * Multiplier^(attempt-1), MaxInterval)
C23_Capped(p, n) ==
    Min(p.InitialInterval * Pow(p.Multiplier, n - 1), p.MaxInterval)

\* C23: for every attempt >= 1 and every policy with MaxInterval >=
\* InitialInterval > 0 and Multiplier >= 1, CalculateBackoff(attempt) is at
\* least the capped exponential value and at most 1.3 * MaxInterval, with or
\* without jitter.
C23_BackoffWithinCapAndJitter ==
    \A k \in DOMAIN backoffCalls :
        LET p == backoffPolicy
            c == backoffCalls[k]
        IN  (/\ c.attempt >= 1
             /\ p.MaxInterval >= p.InitialInterval /\ p.InitialInterval > 0
             /\ p.Multiplier >= 1) =>
                /\ c.delay >= C23_Capped(p, c.attempt)
                /\ 10 * c.delay <= 13 * p.MaxInterval
                /\ 10 * c.delay <= 13 * C23_Capped(p, c.attempt)

\* A call with jitter, at the cap, returned more than the cap.
C23_Witness ==
    \E k \in DOMAIN backoffCalls :
        /\ backoffPolicy.RandomizeJitter
        /\ backoffPolicy.InitialInterval = 10 /\ backoffPolicy.MaxInterval = 100
        /\ backoffPolicy.Multiplier >= 2
        /\ backoffCalls[k].attempt = MaxBackoffAttempt
        /\ backoffCalls[k].delay > 100

\* With jitter disabled, the delay is the capped exponential value for
\* attempt >= 1 and 0 for attempt <= 0.
C24_Formula ==
    \A k \in DOMAIN backoffCalls :
        ~backoffPolicy.RandomizeJitter =>
            backoffCalls[k].delay =
                IF backoffCalls[k].attempt >= 1
                THEN C23_Capped(backoffPolicy, backoffCalls[k].attempt)
                ELSE 0

\* With jitter disabled, the delay does not decrease as the attempt grows,
\* and stays at the cap once it has reached it.
C24_Monotone ==
    \A j, k \in DOMAIN backoffCalls :
        (/\ ~backoffPolicy.RandomizeJitter
         /\ backoffCalls[j].attempt <= backoffCalls[k].attempt) =>
            /\ backoffCalls[j].delay <= backoffCalls[k].delay
            /\ (backoffCalls[j].attempt >= 1
                    /\ backoffCalls[j].delay = backoffPolicy.MaxInterval) =>
                        backoffCalls[k].delay = backoffPolicy.MaxInterval

\* C24 as stated: with jitter disabled CalculateBackoff is the capped
\* exponential value, and so non-decreasing in the attempt and constant at
\* the cap, for every policy.
C24_Original_MonotoneForEveryPolicy == C24_Formula /\ C24_Monotone

\* C24: with jitter disabled, CalculateBackoff(attempt) is
\* min(InitialInterval * Multiplier^(attempt-1), MaxInterval) for attempt >=
\* 1 and 0 for attempt <= 0, for every policy; for the policies with
\* Multiplier >= 1 it is non-decreasing in the attempt and constant once
\* the cap is reached.
C24_CappedExponential ==
    /\ C24_Formula
    /\ backoffPolicy.Multiplier >= 1 => C24_Monotone

\* Without jitter the delay grew from one attempt to a later one, at which
\* it is at the cap.
C24_Witness ==
    /\ ~backoffPolicy.RandomizeJitter
    /\ backoffPolicy.Multiplier >= 2
    /\ Len(backoffCalls) = 2
    /\ backoffCalls[1].attempt >= 1
    /\ backoffCalls[1].attempt < backoffCalls[2].attempt
    /\ backoffCalls[1].delay < backoffCalls[2].delay
    /\ backoffCalls[2].delay = backoffPolicy.MaxInterval

\* ------------------------------------------------- claims: WithRetryTyped

C35_RetryCancelled(e) == e # Nil /\ e[1] = "retry cancelled"

\* C35: WithRetry and WithRetryTyped look at the context in the select of
\* a wait and nowhere else. With MaxRetries >= 0 they return only after
\* the operation was invoked, a cancelled context or not, and an attempt
\* that succeeds returns nil under a cancelled context too; a "retry
\* cancelled" error is returned from a wait only, so never with
\* MaxRetries = 0.
C35_CancellationOnlyInWait ==
    /\ []((pc = "returned" /\ policy.MaxRetries >= 0) => calls >= 1)
    /\ []((typed.pc = "returned" /\ typed.policy.MaxRetries >= 0) =>
                typed.calls >= 1)
    /\ []((pc = "returned" /\ lastOutcome = Nil /\ calls >= 1) => result = Nil)
    /\ []((pc = "returned" /\ C35_RetryCancelled(result)) =>
                (waits >= 1 /\ waits = calls /\ policy.MaxRetries >= 1))
    /\ []((typed.pc = "returned" /\ C35_RetryCancelled(typed.err)) =>
                (typed.waits >= 1 /\ typed.waits = typed.calls
                    /\ typed.policy.MaxRetries >= 1))
    /\ [][(C35_RetryCancelled(result') /\ result' # result) =>
                (pc = "select" /\ woken = "ctx")]_vars
    /\ [][(C35_RetryCancelled(typed'.err) /\ typed'.err # typed.err) =>
                typed.pc = "select"]_vars

\* MaxRetries 0 and a context cancelled before the only attempt (no other
\* step of WithRetry can be cancelled then): both functions have invoked
\* the operation once and report its failure, not the cancellation.
C35_Witness ==
    /\ policy.MaxRetries = 0
    /\ ctxErr # Nil
    /\ pc = "returned" /\ calls = 1
    /\ result = MaxRetriesExceeded(ErrTimeout)
    /\ typed.pc = "returned" /\ typed.calls = 1
    /\ typed.err = MaxRetriesExceeded(ErrTimeout)

\* C25: WithRetryTyped, run on the policy argument, the outcomes of fn, the
\* draws of rand.Float64() and the cancellation point of a WithRetry call,
\* uses the same policy (the default one, with 3 retries, for nil), never
\* gets ahead of that call, waits the same durations, and returns after as
\* many invocations and waits with the same error; it returns what fn
\* returned on success and the zero value with every error.
C25_SameAlgorithm ==
    /\ typed.policy = policy
    /\ (policyArg = NilPolicy) => (typed.policy.MaxRetries = 3)
    /\ typed.calls <= calls
    /\ typed.waits <= waits
    /\ typed.pc = "select" =>
            typed.backoff = CalculateBackoff(policy, typed.waits,
                                             trace[typed.calls].r)
    /\ typed.pc = "returned" =>
            /\ typed.calls = calls
            /\ typed.waits = waits
            /\ typed.err = result
            /\ typed.err = Nil => typed.value = typed.result
            /\ typed.err # Nil => typed.value = Zero

\* A nil policy, four failures: both give up with the same error, and
\* WithRetryTyped returns the zero value although fn returned another one.
C25_Witness ==
    /\ policyArg = NilPolicy
    /\ typed.pc = "returned"
    /\ typed.calls = 4 /\ typed.waits = 3
    /\ typed.err = MaxRetriesExceeded(ErrTimeout)
    /\ typed.result = 7 /\ typed.value = Zero

\* ------------------------------------- claims: PerUserRateLimitMiddleware

\* C26: at most one limiter is ever made for a key, a key that has a limiter
\* keeps it, every request is admitted against the limiter the map holds
\* for its key, and the concurrent requests do not stop the process.
C26_OneLimiterPerKey ==
    /\ [](/\ ~fatal
          /\ \A i, j \in 1..Len(userCreated) :
                userCreated[i] = userCreated[j] => i = j
          /\ \A g \in Handlers :
                handling[g].pc = "allow" =>
                    handling[g].limiter = userLimiters[handling[g].key])
    /\ [][\A k \in UserKeys :
            userLimiters[k] # 0 => userLimiters'[k] = userLimiters[k]]_vars

\* ------------------------------------------- claims: MultiTierRateLimiter

\* C27 as stated: a tier that has a limiter keeps that limiter; a Wait for a
\* tier that has none makes one, so that every tier a Wait was called for
\* has a limiter; a Wait in progress uses the limiter the map holds for its
\* tier.
C27_Original_LazyAndNeverReplaced ==
    /\ [][\A t \in Tiers :
            tierLimiters[t] # 0 => tierLimiters'[t] = tierLimiters[t]]_vars
    /\ [](\A g \in TierWaiters :
            /\ tierWait[g].tier \in Tiers => tierLimiters[tierWait[g].tier] # 0
            /\ tierWait[g].pc = "waiting" =>
                    tierWait[g].limiter = tierLimiters[tierWait[g].tier])

\* The limiters made for a tier, in order.
C27_MadeFor(t) == {i \in 1..Len(tierMade) : tierMade[i].tier = t}

\* C27 as amended: limiters are made by AddTier alone. The map holds for a
\* tier the limiter of the latest AddTier of that tier, and no entry for a
\* tier never added; an entry is never removed, and is replaced by a second
\* AddTier of its tier. A Wait leaves the map as it is: for a tier without
\* entry it returns the not-found error and takes no token, and otherwise it
\* takes its token from the limiter that the map held at its lookup.
C27_LimiterPerAddTier ==
    /\ [](\A t \in Tiers :
            tierLimiters[t] = IF C27_MadeFor(t) = {} THEN 0
                              ELSE CHOOSE i \in C27_MadeFor(t) :
                                        \A j \in C27_MadeFor(t) : j <= i)
    /\ [][tierWait' # tierWait => UNCHANGED <<tierLimiters, tierMade>>]_vars
    /\ [][\A g \in TierWaiters :
            (tierWait[g].pc = "idle" /\ tierWait'[g] # tierWait[g]) =>
                LET t == tierWait'[g].tier
                IN  IF tierLimiters[t] = 0
                    THEN /\ tierWait'[g].pc = "idle"
                         /\ tierWait'[g].result = TierNotFound(t)
                         /\ UNCHANGED tierTaken
                    ELSE /\ tierWait'[g].pc = "waiting"
                         /\ tierWait'[g].limiter = tierLimiters[t]]_vars
    /\ [][\A i \in 1..Len(tierTaken) :
            tierTaken'[i] # tierTaken[i] =>
                \E g \in TierWaiters :
                    /\ tierWait[g].pc = "waiting" /\ tierWait[g].limiter = i
                    /\ tierWait'[g].pc = "idle" /\ tierWait'[g].result = Nil
                    /\ tierTaken'[i] = tierTaken[i] + 1]_vars

\* A tier added twice while a Wait was in progress on its first limiter,
\* which that Wait then took its token from; a Wait for a tier never added
\* has returned the not-found error.
C27_Witness ==
    /\ C27_MadeFor("free") = {1, 2} /\ C27_MadeFor("premium") = {}
    /\ tierLimiters["free"] = 2
    /\ tierTaken = <<1, 0>>
    /\ tierWait[1].tier = "free" /\ tierWait[1].limiter = 1
    /\ tierWait[1].pc = "idle" /\ tierWait[1].result = Nil
    /\ tierWait[2].result = TierNotFound("premium")

\* --------------------------------------------- claims: IdempotentReceiver

\* C28: whatever the deliveries, concurrent ones of the same event ID
\* included, no handler completes successfully more than once for an event
\* ID and the deliveries do not stop the process; an event ID is marked
\* processed only when all its handlers have completed, and a delivery that
\* failed leaves its event unmarked, to be processed again.
C28_HandlersCompleteAtMostOnce ==
    /\ [](/\ ~trackerFatal
          /\ \A id \in EventIDs : \A h \in EventHandlers : completed[id][h] <= 1
          /\ \A id \in processed : \A h \in EventHandlers : completed[id][h] >= 1)
    /\ [][\A g \in Deliverers :
            (delivery'[g].result # Nil /\ delivery'[g] # delivery[g]) =>
                UNCHANGED processed]_vars

\* C36: with a negative MaxRetries neither WithRetry nor WithRetryTyped
\* invokes the operation or waits, and what they return is a non-nil "max
\* retries exceeded" error that wraps no error (with the zero value, for
\* WithRetryTyped).
C36_NegativeMaxRetries ==
    policy.MaxRetries < 0 =>
        /\ calls = 0 /\ waits = 0
        /\ typed.calls = 0 /\ typed.waits = 0
        /\ pc = "returned" =>
                (result # Nil /\ result = <<"max retries exceeded">>)
        /\ typed.pc = "returned" =>
                /\ typed.err # Nil /\ typed.err = <<"max retries exceeded">>
                /\ typed.value = Zero

C36_Witness ==
    /\ policy.MaxRetries = -1 /\ typed.policy.MaxRetries = -1
    /\ pc = "returned" /\ typed.pc = "returned"
    /\ result = <<"max retries exceeded">>
    /\ typed.err = <<"max retries exceeded">>


\* ------------------------------------------- claims: IdempotencyMiddleware

\* C33: a key is in the tracker only after the downstream handler has
\* handled a request with that key with success, and a key whose only
\* requests failed is not answered "already_processed"; a request without
\* the header is never tracked.
C33_MarkedOnlyAfterSuccess ==
    /\ \A k \in processed : k # NoKey /\ completed[k] > 0
    /\ \A g \in DOMAIN delivery :
            delivery[g].result = AlreadyProcessed => completed[delivery[g].id] > 0


\* ------------------------------------------------ claims: RotateAPIKey

\* The step in which RotateAPIKey returns.
C38_Returns == rotation.pc # "returned" /\ rotation'.pc = "returned"

\* The calls of handlers a returned call has made: the first k of the
\* chain, once each and in order, with the old and the new credentials,
\* while the store still held the old ones.
C38_Handled(r, k) ==
    /\ Len(r.handled) = k
    /\ \A i \in 1..k :
            /\ r.handled[i].handler = i
            /\ r.handled[i].oldCreds = r.before[r.providerID]
            /\ r.handled[i].newCreds = r.newCreds
            /\ r.handled[i].stored = r.before[r.providerID]

\* What holds of a call r that returns, the store being s afterwards.
C38_Outcome(r, s) ==
    IF r.result # Nil
    THEN /\ s = r.before
         /\ \/ r.result = ErrCredentialsNotFound /\ r.providerID \notin DOMAIN r.before
            \/ /\ r.result = ErrNotAPIKey
               /\ r.before[r.providerID].Type # CredentialTypeAPIKey
            \/ r.result = ErrRand /\ r.handled = << >>
            \/ /\ r.result = ErrRotation /\ r.chained > 0
               /\ \E k \in 1..r.chained : C38_Handled(r, k)
    ELSE /\ DOMAIN s = DOMAIN r.before
         /\ \A q \in DOMAIN s \ {r.providerID} : s[q] = r.before[q]
         /\ s[r.providerID].Type = CredentialTypeAPIKey
         /\ s[r.providerID].APIKey \in GeneratedKeys
         /\ s[r.providerID].Metadata = r.before[r.providerID].Metadata
         /\ s[r.providerID] = r.newCreds
         /\ C38_Handled(r, r.chained)

\* C38: a RotateAPIKey call that returns an error (provider unknown,
\* credentials not of the API-key type, key generation failed, a handler
\* failed) leaves the store as it was at the call; one that returns nil
\* leaves for the provider API-key credentials with a generated key and the
\* old Metadata, and nothing else changed; the handler registered, if any,
\* was called once (each handler of a chain once, in order, up to the
\* first that fails) with the old and the new credentials, before the
\* store was updated. Until the call returns the store is untouched.
C38_RotateAPIKey ==
    /\ [][C38_Returns => C38_Outcome(rotation', credStore')]_vars
    /\ [](rotation.pc \in {"handler", "set"} => credStore = rotation.before)
    /\ [](rotation.pc = "handler" =>
            (rotation.next <= rotation.chained /\ Len(rotation.handled) = rotation.next - 1))

\* A rotation has returned nil after both handlers of a chain were called,
\* and the provider's credentials had Metadata.
C38_Witness ==
    /\ rotation.pc = "returned" /\ rotation.result = Nil
    /\ Len(rotation.handled) = 2
    /\ credStore[rotation.providerID] = rotation.newCreds
    /\ rotation.newCreds.Metadata = "env=live"
    /\ rotation.newCreds.APIKey # rotation.oldCreds.APIKey


\* -------------------------------------------------- claims: AsyncRouter

\* C39: a Route call made before Stop returns, once, what Router.Route
\* returned for its job, which was routed once; a worker that has routed a
\* job finds room on its done channel; Stop returns, and only when every
\* job that was enqueued has been routed.
C39_RouteReturnsAndStopDrains ==
    /\ [](\A c \in DOMAIN routeCall :
            routeCall[c].beforeStop => routeCall[c].pc # "panicked")
    /\ \A c \in RouteCallers :
            (routeCall[c].pc # "idle" /\ routeCall[c].beforeStop)
                ~> (routeCall[c].pc = "returned")
    /\ [](\A c \in DOMAIN routeCall :
            routeCall[c].pc = "returned" =>
                routeCall[c].routed = <<routeCall[c].result>>)
    /\ [](\A w \in DOMAIN worker :
            worker[w].pc = "route" =>
                /\ routeCall[worker[w].job].done = << >>
                /\ ~routeCall[worker[w].job].doneClosed)
    /\ (stopPc = "wait") ~> (stopPc = "returned")
    /\ [](stopPc = "returned" =>
            /\ queue = << >>
            /\ \A c \in DOMAIN routeCall :
                    routeCall[c].pc \in {"waiting", "returned"} =>
                        Len(routeCall[c].routed) = 1)

====
